---- MODULE Spec2Model ----
(***************************************************************************)
(* Model of rlviser's UDP client (src/src/udp.rs): the receiver thread     *)
(* (start_udp_recv_handler), the sender thread (start_udp_send_handler),   *)
(* the two crossbeam channels between them and the main loop, and the      *)
(* per-frame systems apply_udp_updates / GameStates::advance / listen.     *)
(***************************************************************************)
EXTENDS Integers, Sequences, FiniteSets, TLC

\* ------------------------------------------------------------------ bounds

\* tick_count values carried by inbound snapshots: 0..MaxTick
MaxTick == 3
\* datagram groups (discriminant + payload) the receiver thread handles
MaxPackets == 2
\* commands ever put on the outbound channel
MaxCmds == 3
\* discriminant bytes the network delivers: 0..MaxByte (6.. are unrecognized)
MaxByte == 6
\* presses of the R key
MaxResets == 1
\* PacketTimeElapsed never runs past this many time units in the model
MaxElapsed == 2
\* finite coordinates stay within -MaxCoord..MaxCoord in the model
MaxCoord == 30

Ticks == 0..MaxTick
DiscBytes == 0..MaxByte

\* ------------------------------------------------------------ wire values

\* #[repr(u8)] enum UdpPacketTypes: the discriminant of each variant
PacketByte(name) ==
    CASE name = "Quit" -> 0
      [] name = "GameState" -> 1
      [] name = "Connection" -> 2
      [] name = "Paused" -> 3
      [] name = "Speed" -> 4
      [] name = "Render" -> 5

\* A plausible slip: the catch-all arm maps an unknown byte to a variant.
UdpPacketTypesNewLax(byte) ==
    CASE byte = 0 -> "Quit"
      [] byte = 1 -> "GameState"
      [] byte = 2 -> "Connection"
      [] byte = 3 -> "Paused"
      [] byte = 4 -> "Speed"
      [] byte = 5 -> "Render"
      [] OTHER -> "Connection"

\* UdpPacketTypes::new: Some(variant) for 0..5, None otherwise
UdpPacketTypesNew(byte) ==
    CASE byte = 0 -> "Quit"
      [] byte = 1 -> "GameState"
      [] byte = 2 -> "Connection"
      [] byte = 3 -> "Paused"
      [] byte = 4 -> "Speed"
      [] byte = 5 -> "Render"
      [] OTHER -> "None"

\* little-endian bytes of an unsigned integer, n bytes wide
RECURSIVE LeBytes(_, _)
LeBytes(v, n) == IF n = 0 THEN <<>> ELSE <<v % 256>> \o LeBytes(v \div 256, n - 1)

\* the unsigned integer held little-endian in a byte sequence
RECURSIVE FromLe(_)
FromLe(bytes) == IF bytes = <<>> THEN 0 ELSE bytes[1] + 256 * FromLe(Tail(bytes))

\* playback speeds on the wire, as the IEEE-754 bit pattern of the f32
\* (1.0 = 0x3F800000, 2.0 = 0x40000000); the model names a speed by its value
Speeds == {1, 2}
F32Bits(speed) == IF speed = 1 THEN 1065353216 ELSE 1073741824

\* f32::to_bytes: the 4 little-endian bytes of the float
F32ToBytes(speed) == LeBytes(F32Bits(speed), 4)

\* f32::from_le_bytes
F32FromLeBytes(bytes) == CHOOSE s \in Speeds : F32Bits(s) = FromLe(bytes)

\* f32 values.  A finite value is an integer number of model units (one
\* coordinate of a vector stands for the vector, a time is a number of time
\* units; one time unit is half a second); the three non-finite values lie
\* outside the coordinate range.
NaN == MaxCoord + 1
Inf == MaxCoord + 2
NegInf == 0 - Inf
IsFinite(x) == x \notin {NaN, Inf, NegInf}
\* a finite value outside the coordinate range: no state of the model holds one
OutOfRange == MaxCoord + 3

\* f32 precision, at a mantissa of 4 bits: every integer up to F32Exact is a
\* value of the format, above it every second one, then every fourth
F32Exact == 2 ^ 4

\* the spacing of the format's values around a magnitude m
RECURSIVE Ulp(_)
Ulp(m) == IF m < F32Exact THEN 1 ELSE 2 * Ulp(m \div 2)

\* the result of an f32 operation whose exact value is x: the nearest value
\* of the format, a tie going to the even mantissa
F32(x) ==
    LET m == IF x < 0 THEN 0 - x ELSE x
        u == Ulp(m)
        q == m \div u
        r == m % u
        up == 2 * r > u \/ (2 * r = u /\ q % 2 = 1)
        rounded == IF up THEN (q + 1) * u ELSE q * u
    IN  IF x < 0 THEN 0 - rounded ELSE rounded

\* ball.pos / ball.vel of the R-key reset, in model units
ResetPos == 2
ResetVel == 2

\* GameState::default(): every number zero, the orientation the identity
\* (ball.rot_mat is an angle in quarter turns, 0 the identity), no cars
DefaultGameState ==
    [tick_count |-> 0, tick_rate |-> 0, ball_pos |-> 0, ball_vel |-> 0,
     ball_ang_vel |-> 0, ball_rot |-> 0, cars |-> <<>>]

\* CarInfo { id, state: CarState { pos, vel, .. } } of car id at tick t
\* (car 1 does not spin, car 2 makes a quarter turn per tick)
CarInfo(id, t) ==
    [id |-> id, pos |-> 10 * id + 2 * t, vel |-> 2 * id,
     ang_vel |-> id - 1, rot |-> ((id - 1) * t) % 4]

\* the car list of the snapshot at tick t: two cars, listed in an order that
\* changes from tick to tick, and no car yet at tick 0
CarList(t) ==
    IF t = 0 THEN <<>>
    ELSE IF t % 2 = 1 THEN <<CarInfo(1, t), CarInfo(2, t)>>
    ELSE <<CarInfo(2, t), CarInfo(1, t)>>

\* where the ball is at tick t: it is kicked off after tick 1
BallPos(t) == IF t < 2 THEN t ELSE 6 * (t + 1)

\* the snapshot the server sends at tick t (one per tick, at one tick per time
\* unit; every number in it is a value of the f32 format)
Snapshot(t) ==
    [tick_count |-> t, tick_rate |-> 1, ball_pos |-> BallPos(t), ball_vel |-> 5,
     ball_ang_vel |-> 1, ball_rot |-> t % 2, cars |-> CarList(t)]
Snapshots == {Snapshot(t) : t \in Ticks}

\* a snapshot from a server that reports a tick rate of zero
ZeroRateSnapshots == {[Snapshot(MaxTick) EXCEPT !.tick_rate = 0]}

\* the exponent of the leading bit of a positive integer
RECURSIVE Log2(_)
Log2(m) == IF m < 2 THEN 0 ELSE 1 + Log2(m \div 2)

\* the IEEE-754 single-precision bit pattern of a magnitude, sign bit apart
F32Magnitude(m) ==
    CASE m = NaN -> 2143289344
      [] m = Inf -> 2139095040
      [] m = 0 -> 0
      [] OTHER -> (127 + Log2(m)) * (2 ^ 23) + (m - 2 ^ Log2(m)) * (2 ^ (23 - Log2(m)))

\* f32::to_le_bytes of a value of the model: the sign is the top bit of the
\* last byte
F32LeBytes(v) ==
    LET neg == v # NaN /\ v < 0
        b == LeBytes(F32Magnitude(IF neg THEN 0 - v ELSE v), 4)
    IN  IF neg THEN [b EXCEPT ![4] = b[4] + 128] ELSE b

\* f32::from_le_bytes, back to a value of the model (a magnitude below 1 is
\* none of its values and reads as 0, one of 2^24 or more as out of range)
F32OfLeBytes(bytes) ==
    LET neg == bytes[4] >= 128
        bits == FromLe([bytes EXCEPT ![4] = bytes[4] % 128])
        e == (bits \div (2 ^ 23)) - 127
        m == CASE bits = 0 -> 0
               [] e = 128 -> (IF bits % (2 ^ 23) = 0 THEN Inf ELSE NaN)
               [] e < 0 -> 0
               [] e > 23 -> OutOfRange
               [] OTHER -> 2 ^ e + (bits % (2 ^ 23)) \div (2 ^ (23 - e))
    IN  IF neg THEN 0 - m ELSE m

\* the bytes a car takes: its id as a u32, then four f32
CarBytes == 20

\* CarInfo::to_bytes, and the bytes of a car list
CarToBytes(car) ==
    LeBytes(car.id, 4) \o F32LeBytes(car.pos) \o F32LeBytes(car.vel)
        \o F32LeBytes(car.ang_vel) \o F32LeBytes(car.rot)
RECURSIVE CarsToBytes(_)
CarsToBytes(cars) ==
    IF cars = <<>> THEN <<>> ELSE CarToBytes(Head(cars)) \o CarsToBytes(Tail(cars))

\* the car list held in a byte sequence
RECURSIVE CarsFromBytes(_)
CarsFromBytes(bytes) ==
    IF bytes = <<>> THEN <<>>
    ELSE <<[id |-> FromLe(SubSeq(bytes, 1, 4)),
            pos |-> F32OfLeBytes(SubSeq(bytes, 5, 8)),
            vel |-> F32OfLeBytes(SubSeq(bytes, 9, 12)),
            ang_vel |-> F32OfLeBytes(SubSeq(bytes, 13, 16)),
            rot |-> F32OfLeBytes(SubSeq(bytes, 17, 20))]>>
             \o CarsFromBytes(SubSeq(bytes, CarBytes + 1, Len(bytes)))

\* GameState::to_bytes: tick_count first, as 8 little-endian bytes, then
\* tick_rate, the ball, and the car list behind its length
GameStateToBytes(s) ==
    LeBytes(s.tick_count, 8)
        \o F32LeBytes(s.tick_rate) \o F32LeBytes(s.ball_pos) \o F32LeBytes(s.ball_vel)
        \o F32LeBytes(s.ball_ang_vel) \o F32LeBytes(s.ball_rot)
        \o LeBytes(Len(s.cars), 4)
        \o CarsToBytes(s.cars)

\* GameState::read_tick_count: the u64 at the head of the peeked header
ReadTickCount(bytes) == FromLe(SubSeq(bytes, 1, 8))

\* A plausible slip: the car list is read from the car count on, four bytes
\* early.
GameStateFromBytesEarly(bytes) ==
    [tick_count |-> FromLe(SubSeq(bytes, 1, 8)),
     tick_rate |-> F32OfLeBytes(SubSeq(bytes, 9, 12)),
     ball_pos |-> F32OfLeBytes(SubSeq(bytes, 13, 16)),
     ball_vel |-> F32OfLeBytes(SubSeq(bytes, 17, 20)),
     ball_ang_vel |-> F32OfLeBytes(SubSeq(bytes, 21, 24)),
     ball_rot |-> F32OfLeBytes(SubSeq(bytes, 25, 28)),
     cars |-> CarsFromBytes(SubSeq(bytes, 29,
                                   28 + CarBytes * FromLe(SubSeq(bytes, 29, 32))))]

\* GameState::from_bytes
GameStateFromBytes(bytes) ==
    [tick_count |-> FromLe(SubSeq(bytes, 1, 8)),
     tick_rate |-> F32OfLeBytes(SubSeq(bytes, 9, 12)),
     ball_pos |-> F32OfLeBytes(SubSeq(bytes, 13, 16)),
     ball_vel |-> F32OfLeBytes(SubSeq(bytes, 17, 20)),
     ball_ang_vel |-> F32OfLeBytes(SubSeq(bytes, 21, 24)),
     ball_rot |-> F32OfLeBytes(SubSeq(bytes, 25, 28)),
     cars |-> CarsFromBytes(SubSeq(bytes, 33,
                                   32 + CarBytes * FromLe(SubSeq(bytes, 29, 32))))]

\* a snapshot in which car 2 has left and car 3 has joined in its place
SwapSnapshot == [Snapshot(MaxTick) EXCEPT !.cars[1 + (MaxTick % 2)].id = 3]

\* a snapshot with both cars at the same distance from the ball
TieSnapshot == [Snapshot(2) EXCEPT !.cars[2].pos = 12]

\* the snapshots a server sends, the payload of the datagram that carries
\* each, and what GameState::from_bytes makes of that payload
ServerSnapshots == Snapshots \cup ZeroRateSnapshots \cup {TieSnapshot, SwapSnapshot}
PayloadOf == [s \in ServerSnapshots |-> GameStateToBytes(s)]
DecodedPayloadOf == [s \in ServerSnapshots |-> GameStateFromBytes(PayloadOf[s])]

\* render-overlay messages: AddRender(group, primitives) / RemoveRender(group)
GroupIds == {1}
RenderMessages ==
    {[kind |-> "AddRender", group |-> g, renders |-> 1] : g \in GroupIds}
        \cup {[kind |-> "RemoveRender", group |-> g, renders |-> 0] : g \in GroupIds}

\* the group ids a server assigns, and the render messages about them: two
\* groups and two different primitive lists; a group that maps to 0 is absent
RenderKeys == {1, 2}
OverlayMessages ==
    {[kind |-> "AddRender", group |-> g, renders |-> r] : g \in RenderKeys, r \in {1, 2}}
        \cup {[kind |-> "RemoveRender", group |-> g, renders |-> 0] : g \in RenderKeys}

\* ------------------------------------------------------------ command line

\* the characters of the command-line arguments of the model
DigitChars == <<"0", "1", "2", "3", "4", "5", "6", "7", "8", "9">>
IsDigit(c) == \E d \in 1..Len(DigitChars) : DigitChars[d] = c
DigitValue(c) == (CHOOSE d \in 1..Len(DigitChars) : DigitChars[d] = c) - 1

\* Option<T>: None, Some(x)
None == <<>>
Some(x) == <<x>>

\* u16::MAX
U16Max == 65535

\* the value of a string of digits, None beyond u16::MAX (checked_mul / checked_add)
RECURSIVE DigitsValue(_, _)
DigitsValue(s, acc) ==
    IF s = <<>> THEN Some(acc)
    ELSE IF ~IsDigit(Head(s)) THEN None
    ELSE LET v == 10 * acc + DigitValue(Head(s))
         IN  IF v > U16Max THEN None ELSE DigitsValue(Tail(s), v)

\* s.parse::<u16>().ok(): an empty string, a lone sign, a minus sign, a
\* character that is no digit and a value beyond u16::MAX are errors; one
\* leading plus sign is accepted
ParseU16(s) ==
    IF s = <<>> THEN None
    ELSE IF Head(s) = "+" THEN (IF Len(s) = 1 THEN None ELSE DigitsValue(Tail(s), 0))
    ELSE DigitsValue(s, 0)

\* std::env::args().nth(n): argument 0 is the program
ArgsNth(argv, n) == IF n < Len(argv) THEN Some(argv[n + 1]) ELSE None

\* .and_then(|s| s.parse::<u16>().ok()).unwrap_or(default)
PortOr(arg, default) ==
    IF arg = None THEN default
    ELSE IF ParseU16(arg[1]) = None THEN default
    ELSE ParseU16(arg[1])[1]

DefaultPrimaryPort == 34254
DefaultSecondaryPort == 45243

\* main: the ServerPort resource built from the command line
ServerPortOf(argv) ==
    [primary_port |-> PortOr(ArgsNth(argv, 1), DefaultPrimaryPort),
     secondary_port |-> PortOr(ArgsNth(argv, 1), DefaultSecondaryPort)]

\* the ServerPort resource before main has inserted it
NoServerPort == [primary_port |-> 0 - 1, secondary_port |-> 0 - 1]

\* command-line words: ports, the largest u16 and the number after it, a
\* signed number of each sign, a word that is no number, the empty word
ArgWords ==
    {<<"1", "0", "0", "0">>, <<"2", "0", "0", "0">>, <<"6", "5", "5", "3", "5">>,
     <<"6", "5", "5", "3", "6">>, <<"+", "7">>, <<"-", "1">>, <<"x">>, <<>>}
ProgramName == <<"r", "l", "v", "i", "s", "e", "r">>
ArgLists ==
    {<<ProgramName>>}
        \cup {<<ProgramName, a>> : a \in ArgWords}
        \cup {<<ProgramName, a, b>> : a \in ArgWords, b \in ArgWords}

\* ------------------------------------------------------------------ camera

\* PrimaryCamera
Spectator == [mode |-> "Spectator", id |-> 0]
TrackCar(id) == [mode |-> "TrackCar", id |-> id]
Director(id) == [mode |-> "Director", id |-> id]

\* the camera keys of the GUI: 1 to 3 (4 to 6 are as 3, a car that is not in
\* the game), 9, 0, or none of them
CameraKeys == {"none", "1", "2", "3", "9", "0"}

\* gui listen: the camera state a key selects
KeyCameraState(camera_state, key) ==
    CASE key = "1" -> TrackCar(1)
      [] key = "2" -> TrackCar(2)
      [] key = "3" -> TrackCar(3)
      [] key = "9" -> Director(0)
      [] key = "0" -> Spectator
      [] OTHER -> camera_state

\* the camera Transform before update_camera has placed it
FreeCamera == [car |-> 0, pos |-> 0]

\* f32::MAX: above every squared distance between coordinates of the model
F32Max == 4 * (MaxCoord + 3) * (MaxCoord + 3) + 1

\* a.distance_squared(b), for finite a and b
DistanceSquared(a, b) == F32(F32(a - b) * F32(a - b))

\* dist < min_dist: false when the distance is NaN or infinite
DistLess(a, b, min_dist) ==
    /\ IsFinite(a) /\ IsFinite(b)
    /\ DistanceSquared(a, b) < min_dist

\* A plausible slip: dist <= min_dist, which takes the last car on a tie.
RECURSIVE ClosestOrEqual(_, _, _, _)
ClosestOrEqual(cars, ball_pos, new_id, min_dist) ==
    IF cars = <<>> THEN new_id
    ELSE LET car == Head(cars)
             closer == /\ IsFinite(car.pos) /\ IsFinite(ball_pos)
                       /\ DistanceSquared(car.pos, ball_pos) <= min_dist
         IN  ClosestOrEqual(Tail(cars), ball_pos,
                            IF closer THEN car.id ELSE new_id,
                            IF closer THEN DistanceSquared(car.pos, ball_pos) ELSE min_dist)

\* the loop of the Director arm: new_id after the cars of current, in list order
RECURSIVE Closest(_, _, _, _)
Closest(cars, ball_pos, new_id, min_dist) ==
    IF cars = <<>> THEN new_id
    ELSE LET car == Head(cars)
             closer == DistLess(car.pos, ball_pos, min_dist)
         IN  Closest(Tail(cars), ball_pos,
                     IF closer THEN car.id ELSE new_id,
                     IF closer THEN DistanceSquared(car.pos, ball_pos) ELSE min_dist)

CarIds(cars) == {cars[i].id : i \in 1..Len(cars)}

\* correct_car_count: more entities than cars despawns the entities whose car
\* is not in the state, fewer spawns the cars that have no entity, as many
\* does nothing
CorrectCarCount(entities, cars) ==
    IF Cardinality(entities) > Len(cars) THEN entities \cap CarIds(cars)
    ELSE IF Cardinality(entities) < Len(cars) THEN entities \cup CarIds(cars)
    ELSE entities

\* update_camera, with timer.0.finished() after the tick as finished: the
\* PrimaryCamera component and the camera Transform it leaves, and whether the
\* unwrap of the Car entity lookup panicked
UpdateCamera(camera, finished, current, entities, transform) ==
    LET car_id == IF camera.mode = "Director" /\ (camera.id = 0 \/ finished)
                    THEN Closest(current.cars, current.ball_pos, camera.id, F32Max)
                    ELSE camera.id
        camera1 == IF camera.mode = "Director" THEN Director(car_id) ELSE camera
        found == {i \in 1..Len(current.cars) : current.cars[i].id = car_id}
        target_car == current.cars[CHOOSE i \in found : \A j \in found : i <= j]
    IN  IF camera.mode = "Spectator"
          THEN [camera |-> camera, transform |-> transform, panicked |-> FALSE]
        ELSE IF car_id \notin entities
          THEN [camera |-> camera1, transform |-> transform, panicked |-> TRUE]
        ELSE IF found = {}
          THEN [camera |-> camera1, transform |-> transform, panicked |-> FALSE]
        ELSE [camera |-> camera1,
              transform |-> [car |-> car_id, pos |-> target_car.pos],
              panicked |-> FALSE]

\* ------------------------------------------------------------------ state

VARIABLES
    args,             \* std::env::args()
    server_port,      \* ServerPort { primary_port, secondary_port }
    load_state,       \* GameLoadState: "Connect", "None", or "Panicked" (an unwrap failed)
    recv_pc,          \* receiver thread: "idle" (not spawned), "running", "done"
    recv_why,         \* why the receiver thread returned
    last_game_state,  \* receiver-local last_game_state.tick_count
    inbound,          \* channel UdpUpdate: receiver thread -> main loop
    rx_open,          \* UdpUpdateStream (the channel's Receiver) not yet dropped
    recv_count,       \* datagram groups the receiver thread has handled
    emit_count,       \* events the receiver thread has put on the channel
    game_states,      \* GameStates { last, current, next }
    packet_smoothing, \* PacketSmoothing
    calc_ball_rot,    \* CalcBallRot
    game_speed,       \* GameSpeed { paused, speed }
    packet_updated,   \* PacketUpdated
    exit_requested,   \* an AppExit event has been sent
    render_groups,    \* RenderGroups.groups
    ui_updates,       \* SpeedUpdate / PausedUpdate events sent by the latest frame
    idle_after_done,  \* a frame found the inbound channel empty and disconnected
    drain_count,      \* events apply_udp_updates has taken off the inbound channel
    packet_time_elapsed, \* PacketTimeElapsed: the stopwatch's elapsed time
    last_game_tick,   \* Local<u64> of update_ball_rotation (its instance in the updated set)
    outgoing,         \* channel SendableUdp: main loop -> sender thread
    conn_open,        \* Connection (the channel's Sender) not yet dropped
    send_pc,          \* sender thread: "idle", "recv", "disc", "payload", "done"
    send_cmd,         \* the command the sender thread is writing
    wire,             \* datagrams written to the socket, in order
    enq_log,          \* commands put on the outbound channel, in order
    send_log,         \* per dequeued command: what its two writes did
    options_camera_state, \* Options.camera_state
    primary_camera,   \* the PrimaryCamera component of the camera entity
    car_entities,     \* the ids of the spawned Car entities
    camera_transform  \* the camera's Transform: the car it was placed behind, and where

recv_vars == <<recv_pc, recv_why, last_game_state, inbound, recv_count, emit_count>>
main_vars == <<game_states, packet_smoothing, calc_ball_rot, game_speed, packet_updated,
               exit_requested, render_groups, ui_updates, idle_after_done,
               drain_count, packet_time_elapsed, last_game_tick>>
send_vars == <<send_pc, send_cmd, wire, send_log>>
cli_vars == <<args, server_port>>
view_vars == <<options_camera_state, primary_camera, car_entities, camera_transform>>
vars == <<load_state, recv_vars, rx_open, main_vars, outgoing, conn_open, send_vars, enq_log,
          cli_vars, view_vars>>

NoCmd == [type |-> "None", val |-> 0]

\* the state after construction, for the playback speeds given
Constructed(speeds) ==
    /\ load_state = "Connect"
    /\ recv_pc = "idle"
    /\ recv_why = "none"
    /\ last_game_state = DefaultGameState.tick_count
    /\ inbound = <<>>
    /\ rx_open = TRUE
    /\ recv_count = 0
    /\ emit_count = 0
    /\ game_states = [last |-> DefaultGameState, current |-> DefaultGameState,
                      next |-> DefaultGameState]
    /\ packet_smoothing \in {"None", "Extrapolate", "Interpolate"}
    /\ calc_ball_rot \in BOOLEAN
    /\ game_speed \in [paused : BOOLEAN, speed : speeds]
    /\ packet_updated = FALSE
    /\ exit_requested = FALSE
    /\ render_groups = [g \in RenderKeys |-> 0]
    /\ ui_updates = <<>>
    /\ idle_after_done = FALSE
    /\ drain_count = 0
    /\ packet_time_elapsed = 0
    /\ last_game_tick = 0
    /\ outgoing = <<>>
    /\ conn_open = FALSE
    /\ send_pc = "idle"
    /\ send_cmd = NoCmd
    /\ wire = <<>>
    /\ enq_log = <<>>
    /\ send_log = <<>>
    /\ options_camera_state = Spectator
    /\ primary_camera = Spectator
    /\ car_entities = {}
    /\ camera_transform = FreeCamera

\* the program started without arguments, main has built ServerPort
InitWith(speeds) ==
    /\ Constructed(speeds)
    /\ args = <<ProgramName>>
    /\ server_port = ServerPortOf(args)

Init == InitWith({1})


\* ------------------------------------------------- connection establishment

\* A plausible slip: the announcement is left out.
NoAnnounceDatagrams == <<>>

\* start_udp_send_handler, before the thread is spawned: the one announcement
\* datagram, [UdpPacketTypes::Connection as u8]
AnnounceDatagrams == << <<PacketByte("Connection")>> >>

\* establish_connection: bind, create the outbound channel, spawn the receiver
\* thread, announce (send_to(..).unwrap()), spawn the sender thread, leave the
\* Connect state.  A failed announcement panics before the sender is spawned.
EstablishConnection(ack_ok) ==
    /\ load_state = "Connect"
    /\ IF ack_ok
         THEN /\ load_state' = "None"
              /\ conn_open' = TRUE
              /\ recv_pc' = "running"
              /\ send_pc' = "recv"
              /\ wire' = AnnounceDatagrams
         ELSE /\ load_state' = "Panicked"
              /\ UNCHANGED <<conn_open, recv_pc, send_pc, wire>>
    /\ UNCHANGED <<recv_why, last_game_state, inbound, recv_count, emit_count,
                   rx_open, main_vars, outgoing, send_cmd, send_log, enq_log, cli_vars, view_vars>>

\* -------------------------------------------------------- receiver thread

Event(type, val) == [type |-> type, val |-> val]

RecvReady == recv_pc = "running" /\ recv_count < MaxPackets

\* the thread returns: its Sender half of the inbound channel is dropped
RecvReturn(why) ==
    /\ recv_pc' = "done"
    /\ recv_why' = why
    /\ UNCHANGED <<inbound, emit_count>>

\* tx.send(update): Err when the main loop's Receiver is gone, and the thread returns
RecvSend(ev) ==
    IF rx_open
      THEN /\ inbound' = Append(inbound, ev)
           /\ emit_count' = emit_count + 1
           /\ UNCHANGED <<recv_pc, recv_why>>
      ELSE RecvReturn("send_err")

RecvHandled == recv_count' = recv_count + 1

RecvOthers ==
    UNCHANGED <<load_state, rx_open, main_vars, outgoing, conn_open, send_vars, enq_log,
                cli_vars, view_vars>>

\* socket.recv_from(&mut packet_type_buffer).is_err() => return
RecvReadErr ==
    /\ RecvReady
    /\ RecvReturn("read_err")
    /\ RecvHandled
    /\ UNCHANGED last_game_state
    /\ RecvOthers

\* UdpPacketTypes::new(byte) is None => return
RecvUnknown(byte) ==
    /\ RecvReady
    /\ UdpPacketTypesNew(byte) = "None"
    /\ RecvReturn("unknown")
    /\ RecvHandled
    /\ UNCHANGED last_game_state
    /\ RecvOthers

\* what the thread does after the Quit arm has sent Exit
AfterQuitLoops == "running"
AfterQuit == "done"

\* UdpPacketTypes::Quit => drop(tx.send(UdpUpdate::Exit)); return
RecvQuit(byte) ==
    /\ RecvReady
    /\ UdpPacketTypesNew(byte) = "Quit"
    /\ IF rx_open
         THEN /\ inbound' = Append(inbound, Event("Exit", 0))
              /\ emit_count' = emit_count + 1
         ELSE UNCHANGED <<inbound, emit_count>>
    /\ recv_pc' = AfterQuit
    /\ recv_why' = IF AfterQuit = "done" THEN "quit" ELSE recv_why
    /\ RecvHandled
    /\ UNCHANGED last_game_state
    /\ RecvOthers

\* A plausible slip: the monotonicity check without the bootstrap exemption.
StaleTickNoBootstrap(new_tick_count, last_tick_count) ==
    last_tick_count > new_tick_count

\* A plausible slip: the check is left out and every snapshot passes.
StaleTickNever(new_tick_count, last_tick_count) ==
    new_tick_count > MaxTick + 1 /\ last_tick_count > new_tick_count

\* new_tick_count > 1 && last_game_state.tick_count > new_tick_count
StaleTick(new_tick_count, last_tick_count) ==
    new_tick_count > 1 /\ last_tick_count > new_tick_count

\* what the thread does after draining a stale datagram: the code returns
AfterStale == "done"

\* UdpPacketTypes::GameState: peek the header, compare ticks, drain a stale
\* datagram, else read the payload, decode it, remember it and send State.
\* The peek is retried in a spin until it succeeds, so a pass of the loop gets
\* past it only with the header in hand; ok is the result of the payload read.
RecvGameState(byte, s, ok) ==
    /\ RecvReady
    /\ UdpPacketTypesNew(byte) = "GameState"
    /\ LET bytes == PayloadOf[s]
           new_tick_count == ReadTickCount(bytes)
       IN  /\ RecvHandled
           /\ IF StaleTick(new_tick_count, last_game_state)
                THEN /\ recv_pc' = AfterStale
                     /\ recv_why' = IF AfterStale = "done" THEN "stale" ELSE recv_why
                     /\ UNCHANGED <<inbound, emit_count, last_game_state>>
                ELSE IF ~ok
                       THEN RecvReturn("payload_err") /\ UNCHANGED last_game_state
                       ELSE /\ last_game_state' = DecodedPayloadOf[s].tick_count
                            /\ RecvSend(Event("State", DecodedPayloadOf[s]))
    /\ RecvOthers

\* UdpPacketTypes::Render: peek (retried until it succeeds), read, decode, send Render
RecvRender(byte, msg, ok) ==
    /\ RecvReady
    /\ UdpPacketTypesNew(byte) = "Render"
    /\ RecvHandled
    /\ IF ok THEN RecvSend(Event("Render", msg)) ELSE RecvReturn("payload_err")
    /\ UNCHANGED last_game_state
    /\ RecvOthers

\* UdpPacketTypes::Speed: read 4 bytes, f32::from_le_bytes, send Speed
RecvSpeed(byte, speed_buffer, ok) ==
    /\ RecvReady
    /\ UdpPacketTypesNew(byte) = "Speed"
    /\ RecvHandled
    /\ IF ok THEN RecvSend(Event("Speed", F32FromLeBytes(speed_buffer)))
             ELSE RecvReturn("payload_err")
    /\ UNCHANGED last_game_state
    /\ RecvOthers

\* UdpPacketTypes::Paused: read 1 byte, paused = byte != 0, send Paused
RecvPaused(byte, paused_byte, ok) ==
    /\ RecvReady
    /\ UdpPacketTypesNew(byte) = "Paused"
    /\ RecvHandled
    /\ IF ok THEN RecvSend(Event("Paused", paused_byte # 0)) ELSE RecvReturn("payload_err")
    /\ UNCHANGED last_game_state
    /\ RecvOthers

\* UdpPacketTypes::Connection: send Connection
RecvConnection(byte) ==
    /\ RecvReady
    /\ UdpPacketTypesNew(byte) = "Connection"
    /\ RecvHandled
    /\ RecvSend(Event("Connection", 0))
    /\ UNCHANGED last_game_state
    /\ RecvOthers


\* --------------------------------------------------------------- main loop

\* A plausible slip: the rendered orientation is not carried into next.
AdvanceNoCarry(gs, smoothing, new_state, calc) ==
    IF smoothing \in {"None", "Extrapolate"}
      THEN [last |-> gs.next, current |-> new_state, next |-> new_state]
      ELSE [last |-> gs.next, current |-> gs.next, next |-> new_state]

\* A plausible slip: Interpolate snaps current to the new snapshot as well.
AdvanceSnaps(gs, smoothing, new_state, calc) ==
    LET next1 == IF calc /\ smoothing # "Interpolate"
                   THEN [new_state EXCEPT !.ball_rot = gs.current.ball_rot]
                   ELSE new_state
    IN  [last |-> gs.next, current |-> next1, next |-> next1]

\* A plausible slip: the Interpolate arm leaves last as it was.
AdvanceKeepsLast(gs, smoothing, new_state, calc) ==
    IF smoothing \in {"None", "Extrapolate"}
      THEN LET next1 == IF calc THEN [new_state EXCEPT !.ball_rot = gs.current.ball_rot]
                                ELSE new_state
           IN  [last |-> gs.next, current |-> next1, next |-> next1]
      ELSE [last |-> gs.last, current |-> gs.next, next |-> new_state]

\* GameStates::advance
Advance(gs, smoothing, new_state, calc) ==
    IF smoothing \in {"None", "Extrapolate"}
      THEN LET next1 == IF calc THEN [new_state EXCEPT !.ball_rot = gs.current.ball_rot]
                                ELSE new_state
           IN  [last |-> gs.next, current |-> next1, next |-> next1]
      ELSE [last |-> gs.next, current |-> gs.next, next |-> new_state]

\* position of the first Exit event in the queue, 0 when there is none
FirstExit(q) ==
    IF \E i \in 1..Len(q) : q[i].type = "Exit"
      THEN CHOOSE i \in 1..Len(q) :
               q[i].type = "Exit" /\ \A j \in 1..(i - 1) : q[j].type # "Exit"
      ELSE 0

\* A plausible slip: the channel hands over its newest event first.
DrainedNewestFirst(q) == IF q = <<>> THEN <<>> ELSE <<q[Len(q)]>>

\* the events one call of apply_udp_updates takes off the channel: try_iter
\* yields everything queued, and the Exit arm returns out of the loop
Drained(q) == IF FirstExit(q) = 0 THEN q ELSE SubSeq(q, 1, FirstExit(q))

\* A plausible slip: the first State event of the batch is kept.
RECURSIVE NewGameStateFirst(_)
NewGameStateFirst(batch) ==
    IF batch = <<>> THEN Event("None", 0)
    ELSE IF Head(batch).type = "State" THEN Head(batch)
    ELSE NewGameStateFirst(Tail(batch))

\* new_game_state after the loop: the last State event of the batch
RECURSIVE NewGameState(_)
NewGameState(batch) ==
    IF batch = <<>> THEN Event("None", 0)
    ELSE IF batch[Len(batch)].type = "State" THEN batch[Len(batch)]
    ELSE NewGameState(SubSeq(batch, 1, Len(batch) - 1))

\* A plausible slip: groups.entry(group_id).or_insert(renders), which keeps the
\* list a group already has.
RECURSIVE ApplyRenderKeepFirst(_, _)
ApplyRenderKeepFirst(groups, batch) ==
    IF batch = <<>> THEN groups
    ELSE LET ev == Head(batch)
             g1 == IF ev.type # "Render" THEN groups
                   ELSE IF ev.val.kind = "AddRender"
                          THEN IF groups[ev.val.group] = 0
                                 THEN [groups EXCEPT ![ev.val.group] = ev.val.renders]
                                 ELSE groups
                          ELSE [groups EXCEPT ![ev.val.group] = 0]
         IN  ApplyRenderKeepFirst(g1, Tail(batch))

\* render_groups.groups after the Render events of the batch, in order
RECURSIVE ApplyRender(_, _)
ApplyRender(groups, batch) ==
    IF batch = <<>> THEN groups
    ELSE LET ev == Head(batch)
             g1 == IF ev.type # "Render" THEN groups
                   ELSE IF ev.val.kind = "AddRender"
                          THEN [groups EXCEPT ![ev.val.group] = ev.val.renders]
                          ELSE [groups EXCEPT ![ev.val.group] = 0]
         IN  ApplyRender(g1, Tail(batch))

\* A plausible slip: the two replies are sent in the other order.
RECURSIVE ConnectionRepliesSpeedFirst(_, _)
ConnectionRepliesSpeedFirst(batch, speed) ==
    IF batch = <<>> THEN <<>>
    ELSE (IF Head(batch).type = "Connection"
            THEN <<Event("Speed", speed.speed), Event("Paused", speed.paused)>>
            ELSE <<>>) \o ConnectionRepliesSpeedFirst(Tail(batch), speed)

\* the commands the Connection events of the batch put on the outbound channel
RECURSIVE ConnectionReplies(_, _)
ConnectionReplies(batch, speed) ==
    IF batch = <<>> THEN <<>>
    ELSE (IF Head(batch).type = "Connection"
            THEN <<Event("Paused", speed.paused), Event("Speed", speed.speed)>>
            ELSE <<>>) \o ConnectionReplies(Tail(batch), speed)

IsStateCmd(cmd) == cmd.type = "State"

IsUiUpdate(ev) == ev.type \in {"Speed", "Paused"}

\* A plausible slip: a disconnected inbound channel is taken for Exit.
AppExitSentOnDisconnect(saw_exit, disconnected) == saw_exit \/ disconnected

\* whether apply_udp_updates sends AppExit: only in the Exit arm; try_iter ends
\* the same way on an empty and on a disconnected channel
AppExitSent(saw_exit, disconnected) == saw_exit

\* A plausible slip: the None arm after the loop leaves the flag as it was.
PacketUpdatedSticky(was, saw_exit, advanced) == was \/ advanced

\* A plausible slip: the Exit arm falls through to the match behind the loop,
\* which clears the flag when no snapshot is applied.
PacketUpdatedCleared(was, saw_exit, advanced) == advanced

\* packet_updated.0 after apply_udp_updates: the Exit arm returns before the
\* match that sets it, the Some arm sets it, the None arm clears it
PacketUpdatedAfter(was, saw_exit, advanced) == IF saw_exit THEN was ELSE advanced

\* A plausible slip: the reset is written into all three states of the buffer.
ListenStatesAll(gs, key_r) ==
    IF key_r
      THEN [gs EXCEPT !.last.ball_pos = ResetPos, !.last.ball_vel = ResetVel,
                      !.current.ball_pos = ResetPos, !.current.ball_vel = ResetVel,
                      !.next.ball_pos = ResetPos, !.next.ball_vel = ResetVel]
      ELSE gs

\* listen: on R, reset ball.pos / ball.vel of current and next
ListenStates(gs, key_r) ==
    IF key_r
      THEN [gs EXCEPT !.current.ball_pos = ResetPos, !.current.ball_vel = ResetVel,
                      !.next.ball_pos = ResetPos, !.next.ball_vel = ResetVel]
      ELSE gs

\* A plausible slip: the command carries current, not next.
ListenCommandsCurrent(gs, key_r) == IF key_r THEN <<Event("State", gs.current)>> ELSE <<>>

\* listen: on R, send SendableUdp::State(next)
ListenCommands(gs, key_r) == IF key_r THEN <<Event("State", gs.next)>> ELSE <<>>

\* One frame of the Update schedule in GameLoadState::None as the two channels
\* see it: apply_udp_updates (drain, then advance on the last State event),
\* then listen.  The smoothing systems of the frame, which write current,
\* next.ball.rot_mat, the stopwatch and their Local, are part of SmoothFrame.
Frame(key_r) ==
    /\ load_state = "None"
    /\ ~exit_requested
    /\ LET batch == Drained(inbound)
           saw_exit == \E i \in 1..Len(batch) : batch[i].type = "Exit"
           disconnected == recv_pc = "done" /\ Len(batch) = Len(inbound) /\ ~saw_exit
           new_state == NewGameState(batch)
           advanced == ~saw_exit /\ new_state.type = "State"
           gs1 == IF advanced
                    THEN Advance(game_states, packet_smoothing, new_state.val, calc_ball_rot)
                    ELSE game_states
           gs2 == ListenStates(gs1, key_r)
           cmds == ConnectionReplies(batch, game_speed) \o ListenCommands(gs2, key_r)
       IN  /\ Len(enq_log) + Len(cmds) <= MaxCmds
           /\ key_r => Len(SelectSeq(enq_log, IsStateCmd)) < MaxResets
           /\ inbound' = SubSeq(inbound, Len(batch) + 1, Len(inbound))
           /\ exit_requested' = AppExitSent(saw_exit, disconnected)
           /\ game_states' = gs2
           /\ packet_updated' = PacketUpdatedAfter(packet_updated, saw_exit, advanced)
           /\ render_groups' = ApplyRender(render_groups, batch)
           /\ ui_updates' = SelectSeq(batch, IsUiUpdate)
           /\ idle_after_done' = (idle_after_done \/ disconnected)
           /\ drain_count' = drain_count + Len(batch)
           /\ packet_time_elapsed' = IF advanced THEN 0 ELSE packet_time_elapsed
           /\ outgoing' = outgoing \o cmds
           /\ enq_log' = enq_log \o cmds
    /\ UNCHANGED <<load_state, recv_pc, recv_why, last_game_state, recv_count,
                   emit_count, rx_open, packet_smoothing, calc_ball_rot, game_speed,
                   last_game_tick, conn_open, send_vars, cli_vars, view_vars>>

\* the settings UI switches the smoothing policy at runtime
SetPacketSmoothing(ps) ==
    /\ load_state = "None"
    /\ ~exit_requested
    /\ packet_smoothing # ps
    /\ packet_smoothing' = ps
    /\ UNCHANGED <<load_state, recv_vars, rx_open, game_states, calc_ball_rot, game_speed,
                   packet_updated, exit_requested, render_groups, ui_updates,
                   idle_after_done, drain_count, packet_time_elapsed, last_game_tick,
                   outgoing, conn_open, send_vars, enq_log, cli_vars, view_vars>>

\* after AppExit the App is dropped and its resources with it: Connection (the
\* outbound Sender) and UdpUpdateStream (the inbound Receiver)
AppTeardown ==
    /\ exit_requested
    /\ conn_open
    /\ conn_open' = FALSE
    /\ rx_open' = FALSE
    /\ UNCHANGED <<load_state, recv_vars, main_vars, outgoing, send_vars, enq_log, cli_vars, view_vars>>

\* ------------------------------------------------------- smoothing engine

\* u64 arithmetic, at a width of 8 bits
U64Modulus == 2 ^ 8

\* a - b on u64 underflows
SubOverflows(a, b) == a < b

\* a - b on u64 in a build that wraps
WrappingSub(a, b) == (a - b + U64Modulus) % U64Modulus

\* what the systems of one frame work on: the GameStates buffer, the Local of
\* update_ball_rotation, the stopwatch, and whether a system has panicked
World(gs, tick, elapsed) ==
    [states |-> gs, last_game_tick |-> tick, elapsed |-> elapsed, panicked |-> FALSE]

\* n / d rounded to the nearest integer, d > 0
RoundDiv(n, d) == (2 * n + d) \div (2 * d)

\* an f32 quotient of two non-negative finite values, kept as a fraction
Ratio(num, den) == [kind |-> "finite", num |-> num, den |-> den]
RatioNaN == [kind |-> "nan", num |-> 0, den |-> 1]
RatioInf == [kind |-> "inf", num |-> 1, den |-> 0]

\* (ticks as f32) / tick_rate: NaN for 0 / 0, infinite for x / 0
TicksToTime(ticks, tick_rate) ==
    IF tick_rate = 0 THEN (IF ticks = 0 THEN RatioNaN ELSE RatioInf)
    ELSE Ratio(ticks, tick_rate)

\* delta_time / total_time_delta, for a finite delta_time >= 0
Quotient(delta_time, total) ==
    CASE total.kind = "nan" -> RatioNaN
      [] total.kind = "inf" -> Ratio(0, 1)
      [] total.num = 0 -> (IF delta_time = 0 THEN RatioNaN ELSE RatioInf)
      [] OTHER -> Ratio(delta_time * total.den, total.num)

\* a finite result, or the mark of one that left the model's coordinate range
Fin(x) == IF x > MaxCoord \/ x < 0 - MaxCoord THEN OutOfRange ELSE x

\* the sign of an infinite product or sum
Signed(x) == IF x > 0 THEN Inf ELSE IF x < 0 THEN NegInf ELSE NaN

\* Vec3A::lerp: self + ((rhs - self) * s), each of the three operations
\* rounded to f32 (0 * inf and inf - inf are NaN)
Lerp(a, b, s) ==
    CASE a = NaN \/ b = NaN \/ s.kind = "nan" -> NaN
      [] ~IsFinite(a) -> NaN
      [] ~IsFinite(b) -> (IF s.kind = "finite" /\ s.num = 0 THEN NaN ELSE b)
      [] s.kind = "inf" -> Signed(b - a)
      [] OTHER -> Fin(F32(a + F32(RoundDiv(F32(b - a) * s.num, s.den))))

\* ang_vel > f32::EPSILON for the length ang_vel of a vector ang_vel *
\* delta_time: false for a zero and for a NaN length
ExceedsEpsilon(ang_vel, delta_time) ==
    CASE delta_time.kind = "nan" -> FALSE
      [] delta_time.kind = "inf" -> ang_vel # 0
      [] OTHER -> RoundDiv(ang_vel * delta_time.num, delta_time.den) # 0

\* A plausible slip: the axis is normalized whatever the length, so a zero
\* length divides 0 by 0.
RotatedUnguarded(rot_mat, ang_vel, delta_time) ==
    CASE delta_time.kind = "nan" -> NaN
      [] delta_time.kind = "inf" -> NaN
      [] RoundDiv(ang_vel * delta_time.num, delta_time.den) = 0 -> NaN
      [] rot_mat = NaN -> NaN
      [] OTHER -> (rot_mat + RoundDiv(ang_vel * delta_time.num, delta_time.den)) % 4

\* the rotation step shared by the rotation systems: ball_ang_vel = ang_vel *
\* delta_time, and rot * rot_mat only when its length exceeds f32::EPSILON (a
\* NaN length fails the comparison, an infinite one gives a NaN axis); a
\* rotation about the fixed axis adds quarter turns
Rotated(rot_mat, ang_vel, delta_time) ==
    CASE delta_time.kind = "nan" -> rot_mat
      [] delta_time.kind = "inf" -> (IF ang_vel = 0 THEN rot_mat ELSE NaN)
      [] RoundDiv(ang_vel * delta_time.num, delta_time.den) = 0 -> rot_mat
      [] rot_mat = NaN -> NaN
      [] OTHER -> (rot_mat + RoundDiv(ang_vel * delta_time.num, delta_time.den)) % 4

\* Quat::slerp between two orientations about the fixed axis
Slerp(a, b, s) ==
    IF a = NaN \/ b = NaN \/ s.kind # "finite" THEN NaN
    ELSE (a + RoundDiv((b - a) * s.num, s.den)) % 4

Panic(w) == [w EXCEPT !.panicked = TRUE]

\* update_ball_rotation
UpdateBallRotation(w, smoothing, speed, dt, checks) ==
    LET cur == w.states.current
        overflows == smoothing = "None" /\ SubOverflows(cur.tick_count, w.last_game_tick)
        delta_time ==
            IF smoothing = "None"
              THEN TicksToTime(WrappingSub(cur.tick_count, w.last_game_tick), cur.tick_rate)
              ELSE Ratio(dt * speed.speed, 1)
    IN  IF w.panicked \/ speed.paused THEN w
        ELSE IF overflows /\ checks THEN Panic(w)
        ELSE [w EXCEPT !.last_game_tick = cur.tick_count,
                       !.states.current.ball_rot =
                           Rotated(cur.ball_rot, cur.ball_ang_vel, delta_time)]

\* pos + vel * delta_time, each operation rounded to f32
Integrated(pos, vel, delta_time) ==
    CASE pos = NaN \/ vel = NaN -> NaN
      [] ~IsFinite(vel) ->
             (IF delta_time = 0 \/ (~IsFinite(pos) /\ pos # vel) THEN NaN ELSE vel)
      [] ~IsFinite(pos) -> pos
      [] OTHER -> Fin(F32(pos + F32(vel * delta_time)))

\* A plausible slip: the playback speed is left out of the integration.
ExtrapolatedUnscaled(pos, vel, speed, dt) == Integrated(pos, vel, dt)

\* delta_time = time.delta_seconds() * game_speed.speed; pos += vel * delta_time
Extrapolated(pos, vel, speed, dt) == Integrated(pos, vel, dt * speed.speed)

\* extrapolate_packet
ExtrapolatePacket(w, speed, dt) ==
    LET cur == w.states.current
    IN  IF w.panicked \/ speed.paused THEN w
        ELSE [w EXCEPT !.states.current.ball_pos =
                           Extrapolated(cur.ball_pos, cur.ball_vel, speed, dt),
                       !.states.current.cars =
                           [i \in 1..Len(cur.cars) |->
                               [cur.cars[i] EXCEPT
                                   !.pos = Extrapolated(cur.cars[i].pos, cur.cars[i].vel,
                                                        speed, dt),
                                   !.rot = Rotated(cur.cars[i].rot, cur.cars[i].ang_vel,
                                                   Ratio(dt * speed.speed, 1))]]]

\* interpolate_calc_next_ball_rot
InterpolateCalcNextBallRot(w, checks) ==
    LET last == w.states.last
        next == w.states.next
        overflows == SubOverflows(next.tick_count, last.tick_count)
        delta_time ==
            TicksToTime(WrappingSub(next.tick_count, last.tick_count), next.tick_rate)
    IN  IF w.panicked THEN w
        ELSE IF overflows /\ checks
               THEN Panic([w EXCEPT !.states.current.ball_rot = last.ball_rot])
        ELSE [w EXCEPT !.states.current.ball_rot = last.ball_rot,
                       !.states.next.ball_rot =
                           IF ExceedsEpsilon(last.ball_ang_vel, delta_time)
                             THEN Rotated(last.ball_rot, last.ball_ang_vel, delta_time)
                             ELSE next.ball_rot]

\* lerp_amount of interpolate_packets, the stopwatch already ticked
LerpAmount(gs, speed, elapsed) ==
    Quotient(elapsed * speed.speed,
             TicksToTime(WrappingSub(gs.next.tick_count, gs.last.tick_count),
                         gs.next.tick_rate))

Min(a, b) == IF a < b THEN a ELSE b

\* GameStates::iter_current_cars: izip! pairs the three car lists by position
\* and stops at the end of the shortest
IterCurrentCars(gs) ==
    1..Min(Len(gs.last.cars), Min(Len(gs.current.cars), Len(gs.next.cars)))

\* A plausible slip: the stopwatch is ticked ahead of the pause check.
InterpolatePacketsTicksPaused(w, speed, dt, checks) ==
    LET gs == w.states
        elapsed == w.elapsed + dt
        lerp_amount == LerpAmount(gs, speed, elapsed)
        cars == [i \in 1..Len(gs.current.cars) |->
                    IF i \in IterCurrentCars(gs)
                      THEN [gs.current.cars[i] EXCEPT
                               !.pos = Lerp(gs.last.cars[i].pos, gs.next.cars[i].pos, lerp_amount),
                               !.vel = Lerp(gs.last.cars[i].vel, gs.next.cars[i].vel, lerp_amount),
                               !.rot = Slerp(gs.last.cars[i].rot, gs.next.cars[i].rot, lerp_amount)]
                      ELSE gs.current.cars[i]]
    IN  IF w.panicked THEN w
        ELSE IF speed.paused THEN [w EXCEPT !.elapsed = elapsed]
        ELSE IF SubOverflows(gs.next.tick_count, gs.last.tick_count) /\ checks
               THEN Panic([w EXCEPT !.elapsed = elapsed])
        ELSE [w EXCEPT !.elapsed = elapsed,
                       !.states.current.ball_pos =
                           Lerp(gs.last.ball_pos, gs.next.ball_pos, lerp_amount),
                       !.states.current.ball_rot =
                           Slerp(gs.last.ball_rot, gs.next.ball_rot, lerp_amount),
                       !.states.current.cars = cars]

\* interpolate_packets
InterpolatePackets(w, speed, dt, checks) ==
    LET gs == w.states
        elapsed == w.elapsed + dt
        lerp_amount == LerpAmount(gs, speed, elapsed)
        cars == [i \in 1..Len(gs.current.cars) |->
                    IF i \in IterCurrentCars(gs)
                      THEN [gs.current.cars[i] EXCEPT
                               !.pos = Lerp(gs.last.cars[i].pos, gs.next.cars[i].pos, lerp_amount),
                               !.vel = Lerp(gs.last.cars[i].vel, gs.next.cars[i].vel, lerp_amount),
                               !.rot = Slerp(gs.last.cars[i].rot, gs.next.cars[i].rot, lerp_amount)]
                      ELSE gs.current.cars[i]]
    IN  IF w.panicked \/ speed.paused THEN w
        ELSE IF SubOverflows(gs.next.tick_count, gs.last.tick_count) /\ checks
               THEN Panic([w EXCEPT !.elapsed = elapsed])
        ELSE [w EXCEPT !.elapsed = elapsed,
                       !.states.current.ball_pos =
                           Lerp(gs.last.ball_pos, gs.next.ball_pos, lerp_amount),
                       !.states.current.ball_rot =
                           Slerp(gs.last.ball_rot, gs.next.ball_rot, lerp_amount),
                       !.states.current.cars = cars]

\* A plausible slip: the extrapolation systems run whenever the policy is not
\* Interpolate, None included.
SmoothingSystemsNoneExtrapolates(w, updated, smoothing, calc, speed, dt, checks) ==
    IF updated
      THEN IF ~calc THEN w
           ELSE IF smoothing = "Interpolate" THEN InterpolateCalcNextBallRot(w, checks)
           ELSE UpdateBallRotation(w, smoothing, speed, dt, checks)
      ELSE IF smoothing # "Interpolate"
             THEN [UpdateBallRotation(ExtrapolatePacket(w, speed, dt), "Extrapolate", speed, dt, checks)
                      EXCEPT !.last_game_tick = w.last_game_tick]
           ELSE InterpolatePackets(w, speed, dt, checks)

\* A plausible slip: the smoothing systems of the policy are not gated on
\* PacketUpdated and run on a frame that advanced as well.
SmoothingSystemsNotGated(w, updated, smoothing, calc, speed, dt, checks) ==
    LET w1 == IF ~updated \/ ~calc THEN w
              ELSE IF smoothing = "Interpolate" THEN InterpolateCalcNextBallRot(w, checks)
              ELSE UpdateBallRotation(w, smoothing, speed, dt, checks)
    IN  IF smoothing = "Extrapolate"
          THEN [UpdateBallRotation(ExtrapolatePacket(w1, speed, dt), smoothing, speed, dt, checks)
                   EXCEPT !.last_game_tick = w1.last_game_tick]
        ELSE IF smoothing = "Interpolate" THEN InterpolatePackets(w1, speed, dt, checks)
        ELSE w1

\* the smoothing systems of the Update schedule, behind apply_udp_updates: on
\* a frame that advanced, the ball-rotation system of the policy when
\* CalcBallRot is on; on a frame that did not, the systems of the policy (under
\* Extrapolate a second instance of update_ball_rotation, with a Local of its own)
SmoothingSystems(w, updated, smoothing, calc, speed, dt, checks) ==
    IF updated
      THEN IF ~calc THEN w
           ELSE IF smoothing = "Interpolate" THEN InterpolateCalcNextBallRot(w, checks)
           ELSE UpdateBallRotation(w, smoothing, speed, dt, checks)
      ELSE IF smoothing = "Extrapolate"
             THEN [UpdateBallRotation(ExtrapolatePacket(w, speed, dt), smoothing, speed, dt, checks)
                      EXCEPT !.last_game_tick = w.last_game_tick]
           ELSE IF smoothing = "Interpolate" THEN InterpolatePackets(w, speed, dt, checks)
           ELSE w

\* listen, as a system of the frame: it does not run once the app has panicked
Listen(w, key_r) ==
    IF w.panicked THEN w ELSE [w EXCEPT !.states = ListenStates(w.states, key_r)]

\* every coordinate the frame leaves in current is NaN, infinite, or in range
InModel(gs) ==
    /\ gs.current.ball_pos # OutOfRange
    /\ \A i \in 1..Len(gs.current.cars) :
           gs.current.cars[i].pos # OutOfRange /\ gs.current.cars[i].vel # OutOfRange

\* One frame of the Update schedule in GameLoadState::None, with a frame time
\* of dt: apply_udp_updates, then the smoothing systems and listen.  The
\* schedule orders both behind apply_udp_updates but not against each other:
\* listen_first is the order the executor picks.  An integer overflow panics
\* in a build with overflow checks and wraps in one without: checks is the build.
\* On a frame that advanced, pre_update_car corrects the Car entities;
\* update_camera runs behind it, and on the other frames behind the smoothing
\* systems of Extrapolate and Interpolate (under None it does not run); it
\* sees current as the frame leaves it.  The GUI's listen
\* sets Options.camera_state from camera_key, and update_camera_state, chained
\* behind it, copies that into the PrimaryCamera component on every frame, on
\* either side of update_camera: copy_first is the order the executor picks.
\* timer_finished is DirectorTimer's finished() after this frame's tick.
WholeFrame(key_r, dt, listen_first, checks, camera_key, timer_finished, copy_first) ==
    /\ load_state = "None"
    /\ ~exit_requested
    /\ LET batch == Drained(inbound)
           saw_exit == \E i \in 1..Len(batch) : batch[i].type = "Exit"
           disconnected == recv_pc = "done" /\ Len(batch) = Len(inbound) /\ ~saw_exit
           new_state == NewGameState(batch)
           advanced == ~saw_exit /\ new_state.type = "State"
           gs1 == IF advanced
                    THEN Advance(game_states, packet_smoothing, new_state.val, calc_ball_rot)
                    ELSE game_states
           updated == PacketUpdatedAfter(packet_updated, saw_exit, advanced)
           w0 == World(gs1, last_game_tick, IF advanced THEN 0 ELSE packet_time_elapsed)
           w1 == IF listen_first THEN Listen(w0, key_r) ELSE w0
           w2 == SmoothingSystems(w1, updated, packet_smoothing, calc_ball_rot,
                                  game_speed, dt, checks)
           entities == IF updated THEN CorrectCarCount(car_entities, gs1.current.cars)
                                  ELSE car_entities
           options == KeyCameraState(options_camera_state, camera_key)
           camera_runs == updated \/ packet_smoothing \in {"Extrapolate", "Interpolate"}
       IN  \E w3 \in {IF listen_first THEN w2 ELSE Listen(w2, key_r)} :
           \E cam \in {UpdateCamera(IF copy_first THEN options ELSE primary_camera,
                                     timer_finished, w3.states.current, entities,
                                     camera_transform)} :
           LET listened == listen_first \/ ~w3.panicked
               cmds == ConnectionReplies(batch, game_speed)
                           \o (IF listened
                                 THEN ListenCommands(IF listen_first THEN w1.states
                                                                     ELSE w3.states, key_r)
                                 ELSE <<>>)
           IN  /\ Len(enq_log) + Len(cmds) <= MaxCmds
               /\ key_r => Len(SelectSeq(enq_log, IsStateCmd)) < MaxResets
               /\ w3.elapsed <= MaxElapsed
               /\ InModel(w3.states)
               /\ inbound' = SubSeq(inbound, Len(batch) + 1, Len(inbound))
               /\ exit_requested' = AppExitSent(saw_exit, disconnected)
               /\ game_states' = w3.states
               /\ last_game_tick' = w3.last_game_tick
               /\ packet_time_elapsed' = w3.elapsed
               /\ load_state' = IF w3.panicked \/ (camera_runs /\ cam.panicked)
                                    THEN "Panicked" ELSE load_state
               /\ IF w3.panicked
                    THEN UNCHANGED view_vars
                    ELSE /\ car_entities' = entities
                         /\ options_camera_state' = options
                         /\ primary_camera' = IF camera_runs /\ copy_first THEN cam.camera
                                                                           ELSE options
                         /\ camera_transform' = IF camera_runs THEN cam.transform
                                                               ELSE camera_transform
               /\ packet_updated' = updated
               /\ render_groups' = ApplyRender(render_groups, batch)
               /\ ui_updates' = SelectSeq(batch, IsUiUpdate)
               /\ idle_after_done' = (idle_after_done \/ disconnected)
               /\ drain_count' = drain_count + Len(batch)
               /\ outgoing' = outgoing \o cmds
               /\ enq_log' = enq_log \o cmds
    /\ UNCHANGED <<recv_pc, recv_why, last_game_state, recv_count,
                   emit_count, rx_open, packet_smoothing, calc_ball_rot, game_speed,
                   conn_open, send_vars, cli_vars>>

\* a frame in which no camera key is pressed
SmoothFrame(key_r, dt, listen_first, checks) ==
    WholeFrame(key_r, dt, listen_first, checks, "none", FALSE, TRUE)

\* ---------------------------------------------------------- sender thread

\* the discriminant written for a command
CmdDiscriminant(cmd) ==
    CASE cmd.type = "State" -> PacketByte("GameState")
      [] cmd.type = "Speed" -> PacketByte("Speed")
      [] cmd.type = "Paused" -> PacketByte("Paused")

\* the payload written for a command
CmdPayload(cmd) ==
    CASE cmd.type = "State" -> GameStateToBytes(cmd.val)
      [] cmd.type = "Speed" -> F32ToBytes(cmd.val)
      [] cmd.type = "Paused" -> <<IF cmd.val THEN 1 ELSE 0>>

SendOthers ==
    UNCHANGED <<load_state, recv_vars, rx_open, main_vars, conn_open, enq_log, cli_vars, view_vars>>

\* A plausible slip: a disconnected channel is reported while commands are queued.
RecvDisconnectedEager(queue, open) == ~open

\* outgoing.recv() returns Err: the channel is empty and every Sender is dropped
RecvDisconnected(queue, open) == queue = <<>> /\ ~open

\* outgoing.recv(): Ok(command), or Err(_) => return; blocks on an empty open channel
SenderRecv ==
    /\ send_pc = "recv"
    /\ IF RecvDisconnected(outgoing, conn_open)
         THEN /\ send_pc' = "done"
              /\ UNCHANGED <<outgoing, send_cmd>>
         ELSE /\ outgoing # <<>>
              /\ send_cmd' = Head(outgoing)
              /\ outgoing' = Tail(outgoing)
              /\ send_pc' = "disc"
    /\ UNCHANGED <<wire, send_log>>
    /\ SendOthers

\* A plausible slip: a failed write ends the thread.
AfterWriteErrReturns == "done"

\* send_to(..).is_err() => continue
AfterWriteErr == "recv"

\* A plausible slip: the payload is written ahead of its discriminant.
CmdDatagramsSwapped(cmd) == <<CmdPayload(cmd), <<CmdDiscriminant(cmd)>> >>

\* the two datagrams of a command, in write order
CmdDatagrams(cmd) == << <<CmdDiscriminant(cmd)>>, CmdPayload(cmd)>>

\* A plausible slip: a failed discriminant write is not checked and the
\* thread goes on to the payload.
SenderWriteDiscFallsThrough(ok) ==
    /\ send_pc = "disc"
    /\ IF ok THEN wire' = Append(wire, CmdDatagrams(send_cmd)[1]) ELSE UNCHANGED wire
    /\ send_pc' = "payload"
    /\ UNCHANGED <<send_cmd, send_log, outgoing>>
    /\ SendOthers

\* socket.send_to(&[discriminant], out_addr)
SenderWriteDisc(ok) ==
    /\ send_pc = "disc"
    /\ IF ok
         THEN /\ wire' = Append(wire, CmdDatagrams(send_cmd)[1])
              /\ send_pc' = "payload"
              /\ UNCHANGED <<send_cmd, send_log>>
         ELSE /\ send_pc' = AfterWriteErr
              /\ send_log' = Append(send_log, [cmd |-> send_cmd, disc |-> FALSE, payload |-> FALSE])
              /\ send_cmd' = NoCmd
              /\ UNCHANGED wire
    /\ UNCHANGED outgoing
    /\ SendOthers

\* socket.send_to(&bytes, out_addr)
SenderWritePayload(ok) ==
    /\ send_pc = "payload"
    /\ IF ok
         THEN /\ wire' = Append(wire, CmdDatagrams(send_cmd)[2])
              /\ send_pc' = "recv"
         ELSE /\ send_pc' = AfterWriteErr
              /\ UNCHANGED wire
    /\ send_log' = Append(send_log, [cmd |-> send_cmd, disc |-> TRUE, payload |-> ok])
    /\ send_cmd' = NoCmd
    /\ UNCHANGED outgoing
    /\ SendOthers

\* --------------------------------------------------------------------- main

\* main, up to App::new(): the two ports are read from the command line
Main ==
    /\ server_port = NoServerPort
    /\ server_port' = ServerPortOf(args)
    /\ UNCHANGED <<load_state, recv_vars, rx_open, main_vars, outgoing, conn_open,
                   send_vars, enq_log, args, view_vars>>

\* ------------------------------------------------------------ specification

SpeedBuffers == {F32ToBytes(s) : s \in Speeds}

\* one pass of the receiver loop over a datagram group whose first byte is byte
RecvDatagram(byte) ==
    \/ RecvUnknown(byte)
    \/ RecvQuit(byte)
    \/ RecvConnection(byte)
    \/ \E ok \in BOOLEAN :
           \/ \E s \in Snapshots : RecvGameState(byte, s, ok)
           \/ \E msg \in RenderMessages : RecvRender(byte, msg, ok)
           \/ \E buf \in SpeedBuffers : RecvSpeed(byte, buf, ok)
           \/ \E b \in 0..1 : RecvPaused(byte, b, ok)

Receiver ==
    \/ RecvReadErr
    \/ \E byte \in DiscBytes : RecvDatagram(byte)

\* time.delta() of a frame, in time units
FrameTimes == {0, 1}

Sender ==
    \/ SenderRecv
    \/ \E ok \in BOOLEAN : SenderWriteDisc(ok) \/ SenderWritePayload(ok)

MainLoop ==
    \/ \E key_r \in BOOLEAN : Frame(key_r)
    \/ \E ps \in {"None", "Extrapolate", "Interpolate"} : SetPacketSmoothing(ps)
    \/ AppTeardown

\* the whole client
Next ==
    \/ \E ack_ok \in BOOLEAN : EstablishConnection(ack_ok)
    \/ Receiver
    \/ Sender
    \/ \E key_r \in BOOLEAN, dt \in FrameTimes, listen_first \in BOOLEAN, checks \in BOOLEAN :
           SmoothFrame(key_r, dt, listen_first, checks)
    \/ \E ps \in {"None", "Extrapolate", "Interpolate"} : SetPacketSmoothing(ps)
    \/ AppTeardown

FullSpec == Init /\ [][Next]_vars

\* The inbound half: the receiver thread and the main loop, its frames taken
\* as Frame takes them.  The sender thread
\* reads and writes only outgoing, send_pc, send_cmd, wire and send_log, none of
\* which these actions read, so leaving its steps out changes no behaviour of
\* the variables of the inbound half.
RecvNext ==
    \/ \E ack_ok \in BOOLEAN : EstablishConnection(ack_ok)
    \/ Receiver
    \/ MainLoop

Spec == Init /\ [][RecvNext]_vars

\* The start of the program: a command line, then main.
CliInit ==
    /\ Constructed({1})
    /\ args \in ArgLists
    /\ server_port = NoServerPort

CliNext == Main

CliSpec == CliInit /\ [][CliNext]_vars

\* The render overlay: the receiver fed with render messages about two groups
\* next to the other kinds of datagram, and the frames that apply them.
RenderReceiver ==
    \E byte \in DiscBytes :
        \/ RecvQuit(byte)
        \/ RecvConnection(byte)
        \/ \E ok \in BOOLEAN :
               \/ \E s \in Snapshots : RecvGameState(byte, s, ok)
               \/ \E msg \in OverlayMessages : RecvRender(byte, msg, ok)
               \/ \E buf \in SpeedBuffers : RecvSpeed(byte, buf, ok)
               \/ \E b \in 0..1 : RecvPaused(byte, b, ok)

RenderNext ==
    \/ \E ack_ok \in BOOLEAN : EstablishConnection(ack_ok)
    \/ RenderReceiver
    \/ Frame(FALSE)

RenderSpec == Init /\ [][RenderNext]_vars

\* The outbound half: the sender thread, and the main loop fed by a network
\* that delivers Connection, GameState and Quit datagrams (the datagrams that
\* make the main loop enqueue commands, change what SendState carries, or
\* close the outbound channel).
SendNext ==
    \/ \E ack_ok \in BOOLEAN : EstablishConnection(ack_ok)
    \/ \E byte \in DiscBytes :
           \/ RecvQuit(byte)
           \/ RecvConnection(byte)
           \/ RecvGameState(byte, Snapshot(MaxTick), TRUE)
    \/ Sender
    \/ \E key_r \in BOOLEAN : Frame(key_r)
    \/ AppTeardown

\* The smoothing engine: the receiver thread fed with GameState datagrams, from
\* a server that reports its tick rate or reports zero, and the whole frame,
\* with the R key never pressed (listen then changes nothing, in either order).
SmoothNext ==
    \/ \E ack_ok \in BOOLEAN : EstablishConnection(ack_ok)
    \/ \E s \in Snapshots \cup ZeroRateSnapshots, ok \in BOOLEAN :
           RecvGameState(PacketByte("GameState"), s, ok)
    \/ \E dt \in FrameTimes, checks \in BOOLEAN : SmoothFrame(FALSE, dt, TRUE, checks)
    \/ \E ps \in {"None", "Extrapolate", "Interpolate"} : SetPacketSmoothing(ps)

SmoothInit == InitWith(Speeds)

\* The game-state buffer with the R key: frames of one time unit of the Update
\* schedule at playback speed 1 under the policy and the ball-rotation option
\* the run starts with, listen on either side of the smoothing systems, fed
\* with snapshots.
BufferNext ==
    \/ \E ack_ok \in BOOLEAN : EstablishConnection(ack_ok)
    \/ \E s \in Snapshots : RecvGameState(PacketByte("GameState"), s, TRUE)
    \/ \E key_r \in BOOLEAN, listen_first \in BOOLEAN :
           SmoothFrame(key_r, 1, listen_first, TRUE)

BufferInit == Init /\ ~game_speed.paused

\* The camera: frames of one time unit in a build without overflow checks,
\* with the camera keys, the director timer finished or not and
\* update_camera_state on either side of update_camera, fed with snapshots.
CameraNext ==
    \/ \E ack_ok \in BOOLEAN : EstablishConnection(ack_ok)
    \/ \E s \in Snapshots \cup {TieSnapshot} : RecvGameState(PacketByte("GameState"), s, TRUE)
    \/ \E camera_key \in CameraKeys, timer_finished \in BOOLEAN, copy_first \in BOOLEAN :
           WholeFrame(FALSE, 1, TRUE, FALSE, camera_key, timer_finished, copy_first)

CameraSpec == BufferInit /\ [][CameraNext]_vars

BufferSpec == BufferInit /\ [][BufferNext]_vars

SmoothSpec == SmoothInit /\ [][SmoothNext]_vars

\* The end of a session: the receiver fed with GameState and Quit datagrams,
\* and the whole frame without the R key.
ExitNext ==
    \/ \E ack_ok \in BOOLEAN : EstablishConnection(ack_ok)
    \/ \E s \in Snapshots : RecvGameState(PacketByte("GameState"), s, TRUE)
    \/ RecvQuit(PacketByte("Quit"))
    \/ \E dt \in FrameTimes, checks \in BOOLEAN : SmoothFrame(FALSE, dt, TRUE, checks)

ExitSpec == Init /\ [][ExitNext]_vars

\* The car entities: frames of one time unit in a build without overflow
\* checks, no key pressed, fed with snapshots in which cars join, leave, and
\* one leaves as another joins.
CarsNext ==
    \/ \E ack_ok \in BOOLEAN : EstablishConnection(ack_ok)
    \/ \E s \in Snapshots \cup {SwapSnapshot} : RecvGameState(PacketByte("GameState"), s, TRUE)
    \/ SmoothFrame(FALSE, 1, TRUE, FALSE)

CarsSpec == BufferInit /\ [][CarsNext]_vars

\* the smoothing policy and the ball-rotation option play no part in what is sent
SendInit == Init /\ packet_smoothing = "None" /\ calc_ball_rot = FALSE

SendSpec == SendInit /\ [][SendNext]_vars

\* the sender thread is an OS thread: it is scheduled while it can take a step
FairSendSpec == SendSpec /\ WF_vars(Sender)


\* ------------------------------------------------------------------ claims

GameStateByte == PacketByte("GameState")

\* the receiver thread has just put a State event on the inbound channel
EmitsState == emit_count' = emit_count + 1 /\ inbound'[Len(inbound')].type = "State"
EmittedTick == inbound'[Len(inbound')].val.tick_count

C2_KeepsRunning ==
    [][\A s \in Snapshots :
           (/\ StaleTick(s.tick_count, last_game_state)
            /\ \E ok \in BOOLEAN : RecvGameState(GameStateByte, s, ok))
               => (recv_pc' = "running" /\ inbound' = inbound /\ game_states' = game_states)]_vars

\* C3: a GameState datagram whose tick_count is 0 or 1, once its payload is
\* read, is accepted whatever the last accepted tick_count was: the receiver
\* remembers it, emits exactly its State event and keeps running.
C3_Bootstrap ==
    [][\A s \in Snapshots :
           (s.tick_count <= 1 /\ rx_open /\ RecvGameState(GameStateByte, s, TRUE))
               => (/\ inbound' = Append(inbound, Event("State", s))
                   /\ last_game_state' = s.tick_count
                   /\ recv_pc' = "running")]_vars

\* a bootstrap snapshot sits on the channel behind a snapshot with a higher tick
C3_Witness ==
    \E i, j \in 1..Len(inbound) :
        /\ i < j
        /\ inbound[i].type = "State" /\ inbound[i].val.tick_count > 1
        /\ inbound[j].type = "State" /\ inbound[j].val.tick_count <= 1

\* a socket read fails in the receiver loop: the discriminant read, or the
\* payload read of a datagram the tick check let through
RecvReadFailure ==
    \/ RecvReadErr
    \/ \E s \in Snapshots :
           ~StaleTick(s.tick_count, last_game_state) /\ RecvGameState(GameStateByte, s, FALSE)
    \/ \E msg \in RenderMessages : RecvRender(PacketByte("Render"), msg, FALSE)
    \/ \E buf \in SpeedBuffers : RecvSpeed(PacketByte("Speed"), buf, FALSE)
    \/ \E b \in 0..1 : RecvPaused(PacketByte("Paused"), b, FALSE)

\* C4: a discriminant byte outside 0..5, or a failed socket read, ends the
\* receiver thread without an event for that datagram; a receiver thread that
\* has ended stays ended and no event is ever put on the channel again.
C4_FatalIsPermanent ==
    [][/\ \A byte \in DiscBytes :
              (byte > 5 /\ RecvDatagram(byte))
                  => (recv_pc' = "done" /\ emit_count' = emit_count /\ inbound' = inbound)
       /\ RecvReadFailure
              => (recv_pc' = "done" /\ emit_count' = emit_count /\ inbound' = inbound)
       /\ recv_pc = "done"
              => (/\ recv_pc' = "done"
                  /\ emit_count' = emit_count
                  /\ recv_count' = recv_count
                  /\ Len(inbound') <= Len(inbound))]_vars

\* the receiver ended on an unknown discriminant after emitting events, which a
\* frame has since drained
C4_Witness ==
    recv_pc = "done" /\ recv_why = "unknown" /\ emit_count > 0 /\ inbound = <<>>

\* C5: on a Quit discriminant the receiver emits Exit and ends; Exit is only
\* ever the last event on the channel and is emitted by a Quit step alone; a
\* frame that meets Exit requests application exit, does not advance the
\* buffer, and leaves everything behind Exit on the channel.
C5_QuitIsTerminal ==
    /\ [](\A i \in 1..Len(inbound) :
              inbound[i].type = "Exit" => (i = Len(inbound) /\ recv_why = "quit"))
    /\ [](recv_why = "quit" => recv_pc = "done")
    /\ [](exit_requested => recv_why = "quit" /\ inbound = <<>>)
    /\ [][/\ RecvDatagram(PacketByte("Quit"))
              => (/\ inbound' = Append(inbound, Event("Exit", 0))
                  /\ recv_pc' = "done")
          /\ (emit_count' > emit_count /\ inbound'[Len(inbound')].type = "Exit")
              => (recv_pc = "running" /\ recv_why' = "quit")
          /\ \A key_r \in BOOLEAN :
                 (Frame(key_r) /\ FirstExit(inbound) # 0)
                     => (/\ exit_requested'
                         /\ inbound' = SubSeq(inbound, FirstExit(inbound) + 1, Len(inbound))
                         /\ game_states' = ListenStates(game_states, key_r)
                         /\ packet_updated' = packet_updated)]_vars

\* a frame has drained the Exit event of a Quit datagram
C5_Witness == exit_requested /\ recv_why = "quit" /\ emit_count > 1

\* C6 as stated: once a frame has found the inbound channel disconnected (the
\* receiver thread ended without Exit), the main loop has requested exit.
C6_DisconnectExits == idle_after_done => exit_requested

\* C6 amended: a frame that finds the inbound channel disconnected does not
\* request exit; exit is requested only by a frame that drained an Exit event.
C6_ExitOnlyOnExit ==
    /\ idle_after_done => (~exit_requested /\ recv_why # "quit")
    /\ exit_requested => recv_why = "quit"

\* frames have run on a disconnected channel and the main loop is still running
C6_Witness ==
    /\ idle_after_done
    /\ recv_why \in {"unknown", "read_err", "payload_err", "stale"}
    /\ ~exit_requested
    /\ ~packet_updated
    /\ game_states.next.tick_count > 0


\* C7: a failed write of either datagram of a command leaves the sender thread
\* in its loop, waiting on the channel, with nothing written and nothing
\* dequeued by that step, and able to take the next command off the channel.
C7_WriteFailureSkips ==
    /\ []((send_pc = "recv" /\ outgoing # <<>>) => ENABLED SenderRecv)
    /\ [][(SenderWriteDisc(FALSE) \/ SenderWritePayload(FALSE))
              => (/\ send_pc' = "recv"
                  /\ wire' = wire
                  /\ outgoing' = outgoing
                  /\ Len(send_log') = Len(send_log) + 1)]_vars

\* a command whose write failed is followed by a command the sender went on to write
C7_Witness ==
    \E i \in 1..Len(send_log) :
        /\ ~send_log[i].payload
        /\ i < Len(send_log)
        /\ send_log[i + 1].payload
        /\ conn_open

\* C8: the sender thread ends only on a closed and empty outbound channel, it
\* does end once the channel is closed, and every command put on the channel is
\* eventually dequeued and attempted.
C8_SenderTermination ==
    /\ [](send_pc = "done" => (~conn_open /\ outgoing = <<>>))
    /\ \A n \in 1..MaxCmds : (Len(enq_log) >= n) ~> (Len(send_log) >= n)
    /\ (load_state = "None" /\ ~conn_open) ~> (send_pc = "done")

\* the channel was closed with commands still queued; the sender attempted
\* them all and then ended
C8_Witness == send_pc = "done" /\ Len(send_log) = MaxCmds /\ Len(enq_log) = MaxCmds

\* the discriminant the claim gives for each command
ClaimedDiscriminant(cmd) ==
    CASE cmd.type = "Paused" -> 3
      [] cmd.type = "Speed" -> 4
      [] cmd.type = "State" -> 1

\* the datagrams a handled command left on the socket: its discriminant, then
\* its payload, each only if its write succeeded
RECURSIVE WrittenBy(_)
WrittenBy(log) ==
    IF log = <<>> THEN <<>>
    ELSE LET e == Head(log)
         IN  (IF e.disc THEN << <<ClaimedDiscriminant(e.cmd)>> >> ELSE <<>>)
                 \o (IF e.payload THEN <<CmdPayload(e.cmd)>> ELSE <<>>)
                 \o WrittenBy(Tail(log))

\* C9: after the announcement, the socket holds, command by command in the
\* order the commands were enqueued, the discriminant (3 Paused, 4 Speed,
\* 1 State) followed by the payload of that command, with no datagram of
\* another command in between.
C9_WireOrder ==
    /\ \A i \in 1..Len(send_log) : send_log[i].cmd = enq_log[i]
    /\ send_pc \in {"disc", "payload"} => send_cmd = enq_log[Len(send_log) + 1]
    /\ wire # <<>> =>
           Tail(wire) = WrittenBy(send_log)
                            \o (IF send_pc = "payload"
                                  THEN << <<ClaimedDiscriminant(send_cmd)>> >>
                                  ELSE <<>>)

\* three commands of the three kinds have been written in full
C9_Witness ==
    /\ Len(send_log) = 3
    /\ \A i \in 1..3 : send_log[i].disc /\ send_log[i].payload
    /\ {send_log[i].cmd.type : i \in 1..3} = {"Paused", "Speed", "State"}

\* C10: once the connection is established the first datagram on the socket is
\* the one-byte ConnectionAck (2), no later datagram is a ConnectionAck, and
\* nothing is written before establishment.
C10_AnnouncedOnceFirst ==
    /\ load_state # "None" => wire = <<>>
    /\ load_state = "None" =>
           /\ wire # <<>>
           /\ wire[1] = <<2>>
           /\ \A i \in 2..Len(wire) : wire[i] # <<2>>

\* a command has been written in full behind the announcement
C10_Witness == load_state = "None" /\ Len(wire) >= 3 /\ Len(send_log) >= 1

\* the events a step took off the head of the inbound channel
TakenOff == SubSeq(inbound, 1, drain_count' - drain_count)

\* C11: the receiver puts each event it decodes at the tail of the inbound
\* channel; a frame takes a prefix of the channel, everything queued or
\* everything up to the first Exit, and applies it in that order (render
\* messages, speed and pause notices, Connection replies); nothing else
\* touches the channel, and every event emitted is on the channel or drained.
C11_FifoDelivery ==
    /\ [](emit_count = drain_count + Len(inbound))
    /\ [][/\ emit_count' # emit_count
              => (/\ emit_count' = emit_count + 1
                  /\ drain_count' = drain_count
                  /\ SubSeq(inbound', 1, Len(inbound)) = inbound
                  /\ Len(inbound') = Len(inbound) + 1)
          /\ drain_count' # drain_count
              => (/\ emit_count' = emit_count
                  /\ inbound = TakenOff \o inbound'
                  /\ (inbound' # <<>> => TakenOff[Len(TakenOff)].type = "Exit")
                  /\ \A i \in 1..(Len(TakenOff) - 1) : TakenOff[i].type # "Exit"
                  /\ ui_updates' = SelectSeq(TakenOff, IsUiUpdate)
                  /\ render_groups' = ApplyRender(render_groups, TakenOff)
                  /\ LET replies == enq_log \o ConnectionReplies(TakenOff, game_speed)
                     IN  /\ Len(enq_log') >= Len(replies)
                         /\ SubSeq(enq_log', 1, Len(replies)) = replies)
          /\ (emit_count' = emit_count /\ drain_count' = drain_count)
              => inbound' = inbound]_vars

\* two frames have each drained a snapshot and the channel is empty again
C11_Witness ==
    /\ emit_count = MaxPackets
    /\ drain_count = emit_count
    /\ game_states.last.tick_count > 0
    /\ game_states.next.tick_count > game_states.last.tick_count

IsStateEvent(ev) == ev.type = "State"

\* the snapshots of the batch a step took off the channel, in order
TakenStates == SelectSeq(TakenOff, IsStateEvent)

\* a step drained a batch that holds several snapshots and no Exit
DrainsSeveralStates ==
    /\ drain_count' # drain_count
    /\ Len(TakenStates) >= 2
    /\ \A i \in 1..Len(TakenOff) : TakenOff[i].type # "Exit"

\* C12: a frame whose batch holds several State events advances the buffer
\* once, with the last of them: last becomes the previous next, next takes the
\* tick of the last snapshot of the batch, current takes that tick or the one
\* of the previous next, and an earlier snapshot of the batch that was not in
\* the buffer already is in none of last, current and next afterwards.
C12_CollapseToLast ==
    [][DrainsSeveralStates =>
           LET newest == TakenStates[Len(TakenStates)].val
           IN  /\ packet_updated'
               /\ game_states'.last = game_states.next
               /\ game_states'.next.tick_count = newest.tick_count
               /\ game_states'.current.tick_count
                      \in {newest.tick_count, game_states.next.tick_count}
               /\ \A i \in 1..(Len(TakenStates) - 1) :
                      TakenStates[i].val \notin {newest, game_states.next}
                          => TakenStates[i].val \notin {game_states'.last,
                                                        game_states'.current,
                                                        game_states'.next}]_vars

\* a frame that drains a batch of two snapshots with different ticks
CollapsingFrame ==
    /\ Frame(FALSE)
    /\ DrainsSeveralStates
    /\ TakenStates[1].val.tick_count # TakenStates[Len(TakenStates)].val.tick_count
    /\ game_states'.next = TakenStates[Len(TakenStates)].val

\* two snapshots with different ticks are queued and a frame is about to drain
\* them in one batch
C12_Witness == ENABLED CollapsingFrame

\* the snapshots a server can send
AnySnapshot == Snapshots \cup ZeroRateSnapshots

\* C13: from every reachable buffer and for every snapshot, advance under None
\* or Extrapolate leaves last equal to the previous next, next equal to the new
\* snapshot (with the previous current's ball.rot_mat in place of its own when
\* the ball-rotation option is on), and current equal to next.
C13_AdvanceSnapPolicies ==
    \A s \in AnySnapshot, smoothing \in {"None", "Extrapolate"}, calc \in BOOLEAN :
        LET gs == Advance(game_states, smoothing, s, calc)
        IN  /\ gs.last = game_states.next
            /\ gs.next = (IF calc THEN [s EXCEPT !.ball_rot = game_states.current.ball_rot]
                                  ELSE s)
            /\ gs.current = gs.next

\* a frame has advanced under Extrapolate with the option on, and next carries
\* an orientation that is not the one its snapshot came with
C13_Witness ==
    /\ packet_updated
    /\ packet_smoothing = "Extrapolate"
    /\ calc_ball_rot
    /\ game_states.last.tick_count > 0
    /\ game_states.next.tick_count > game_states.last.tick_count
    /\ game_states.next.ball_rot # Snapshot(game_states.next.tick_count).ball_rot

\* C14: from every reachable buffer and for every snapshot, advance under
\* Interpolate leaves last and current both equal to the previous next and
\* next equal to the new snapshot, whatever the ball-rotation option.
C14_AdvanceInterpolate ==
    \A s \in AnySnapshot, calc \in BOOLEAN :
        LET gs == Advance(game_states, "Interpolate", s, calc)
        IN  /\ gs.last = game_states.next
            /\ gs.current = game_states.next
            /\ gs.next = s

\* a frame has advanced under Interpolate between two snapshots: current sits
\* on the older one
C14_Witness ==
    /\ packet_updated
    /\ packet_smoothing = "Interpolate"
    /\ game_states.last.tick_count > 0
    /\ game_states.next.tick_count > game_states.last.tick_count
    /\ game_states.current.tick_count = game_states.last.tick_count
    /\ game_states.current.ball_pos = game_states.last.ball_pos

\* a step that is a whole frame of the smoothing engine
SomeSmoothFrame == \E dt \in FrameTimes, checks \in BOOLEAN : SmoothFrame(FALSE, dt, TRUE, checks)

TicksOrdered(gs) ==
    /\ gs.last.tick_count <= gs.current.tick_count
    /\ gs.current.tick_count <= gs.next.tick_count

\* C15: every frame under Interpolate ends with last.tick_count <=
\* current.tick_count <= next.tick_count, and none panics on the unsigned
\* difference next.tick_count - last.tick_count.
C15_BracketOrdered ==
    [][(SomeSmoothFrame /\ packet_smoothing = "Interpolate")
           => (TicksOrdered(game_states') /\ load_state' # "Panicked")]_vars

\* a frame in which interpolate_packets ran to its end: the policy is
\* Interpolate, the frame did not advance, the game is not paused, no panic
InterpolatesPackets ==
    /\ SomeSmoothFrame
    /\ packet_smoothing = "Interpolate"
    /\ ~packet_updated'
    /\ ~game_speed.paused
    /\ load_state' # "Panicked"

\* lerp_amount as interpolate_packets computed it in the frame just taken
LerpAmountOfFrame == LerpAmount(game_states, game_speed, packet_time_elapsed')

InUnitInterval(s) == s.kind = "finite" /\ 0 <= s.num /\ s.num <= s.den

\* C16: in every frame in which interpolate_packets runs on a bracket of two
\* snapshots a positive time apart, lerp_amount lies in [0, 1].
C16_LerpInUnitInterval ==
    [][(/\ InterpolatesPackets
        /\ game_states.next.tick_rate > 0
        /\ game_states.next.tick_count > game_states.last.tick_count)
           => InUnitInterval(LerpAmountOfFrame)]_vars

\* C17: a frame in which interpolate_packets computes lerp_amount = 0 leaves
\* current.ball.pos equal to last.ball.pos, and one in which it computes
\* lerp_amount = 1 leaves it equal to next.ball.pos.
C17_LerpEndpoints ==
    [][(InterpolatesPackets /\ LerpAmountOfFrame.kind = "finite")
           => /\ (LerpAmountOfFrame.num = 0
                    => game_states'.current.ball_pos = game_states.last.ball_pos)
              /\ (LerpAmountOfFrame.num = LerpAmountOfFrame.den
                    => game_states'.current.ball_pos = game_states.next.ball_pos)]_vars

\* the cars of a car list that carry the id
WithId(cars, id) == {i \in 1..Len(cars) : cars[i].id = id}

\* C18: in a frame in which interpolate_packets runs, a car of current that has
\* a car of the same id in last and in next is placed between those two, and a
\* car that is missing from last or from next is left as it was.
C18_CarsPairedById ==
    [][InterpolatesPackets
           => \A i \in 1..Len(game_states.current.cars) :
                  LET car == game_states.current.cars[i]
                      in_last == WithId(game_states.last.cars, car.id)
                      in_next == WithId(game_states.next.cars, car.id)
                  IN  IF in_last = {} \/ in_next = {}
                        THEN game_states'.current.cars[i] = car
                        ELSE \E l \in in_last, n \in in_next :
                                 game_states'.current.cars[i].pos =
                                     Lerp(game_states.last.cars[l].pos,
                                          game_states.next.cars[n].pos,
                                          LerpAmountOfFrame)]_vars

\* pos + vel * dt * s for finite pos and vel, as f32 arithmetic gives it
Advanced(pos, vel, dt, s) == F32(pos + F32(vel * (dt * s)))

\* C19: an unpaused frame of extrapolate_packet with frame time dt at playback
\* speed s adds vel * dt * s to the position of the ball and of every car of
\* current, and leaves last and next as they were; a ball at 10 units per
\* second (5 per time unit) advances by exactly 5 in half a second at speed 1.
C19_ExtrapolateIntegration ==
    /\ Extrapolated(0, 5, [paused |-> FALSE, speed |-> 1], 1) = 5
    /\ [][\A dt \in FrameTimes, checks \in BOOLEAN :
              (/\ packet_smoothing = "Extrapolate"
               /\ ~packet_updated'
               /\ ~game_speed.paused
               /\ load_state = "None"
               /\ recv_count' = recv_count
               /\ packet_smoothing' = packet_smoothing
               /\ SmoothFrame(FALSE, dt, TRUE, checks))
                 => LET cur == game_states.current
                        new == game_states'.current
                        s == game_speed.speed
                    IN  /\ game_states'.last = game_states.last
                        /\ game_states'.next = game_states.next
                        /\ (IsFinite(cur.ball_pos) /\ IsFinite(cur.ball_vel))
                             => new.ball_pos = Advanced(cur.ball_pos, cur.ball_vel, dt, s)
                        /\ Len(new.cars) = Len(cur.cars)
                        /\ \A i \in 1..Len(cur.cars) :
                               (IsFinite(cur.cars[i].pos) /\ IsFinite(cur.cars[i].vel))
                                 => new.cars[i].pos =
                                        Advanced(cur.cars[i].pos, cur.cars[i].vel, dt, s)]_vars

\* current is one frame of one time unit, at twice the speed, ahead of next
C19_Witness ==
    /\ packet_smoothing = "Extrapolate"
    /\ ~packet_updated
    /\ game_speed = [paused |-> FALSE, speed |-> 2]
    /\ game_states.next.ball_vel # 0
    /\ game_states.current.ball_pos =
           Advanced(game_states.next.ball_pos, game_states.next.ball_vel, 1, 2)
    /\ Len(game_states.current.cars) = 2
    /\ \A i \in 1..2 :
           game_states.current.cars[i].pos =
               Advanced(game_states.next.cars[i].pos, game_states.next.cars[i].vel, 1, 2)

\* the tick_rate a smoothing system of the frame just taken divided by is 0:
\* interpolate_packets or interpolate_calc_next_ball_rot under Interpolate
\* (next.tick_rate), update_ball_rotation under None (current.tick_rate)
DividesByZeroRate ==
    /\ SomeSmoothFrame
    /\ load_state' # "Panicked"
    /\ \/ /\ packet_smoothing = "Interpolate"
          /\ ~packet_updated'
          /\ ~game_speed.paused
          /\ game_states.next.tick_rate = 0
       \/ /\ packet_smoothing = "Interpolate"
          /\ packet_updated'
          /\ calc_ball_rot
          /\ game_states'.next.tick_rate = 0
       \/ /\ packet_smoothing = "None"
          /\ packet_updated'
          /\ calc_ball_rot
          /\ ~game_speed.paused
          /\ game_states'.current.tick_rate = 0

\* current as the frame would leave it with the smoothing skipped: as it was,
\* or as advance installed it from the newest snapshot of the frame
HeldCurrent ==
    IF packet_updated'
      THEN Advance(game_states, packet_smoothing,
                   NewGameState(TakenOff).val, calc_ball_rot).current
      ELSE game_states.current

\* C20: a frame whose smoothing system would divide by a tick_rate of 0 skips
\* the smoothing and holds current.
C20_ZeroTickRateHeld ==
    [][DividesByZeroRate => game_states'.current = HeldCurrent]_vars

\* the length of ang_vel * delta_time does not exceed f32::EPSILON: in model
\* units, the product is zero
AtOrBelowEpsilon(ang_vel, delta_time) ==
    /\ IsFinite(ang_vel)
    /\ delta_time.kind = "finite"
    /\ ang_vel * delta_time.num = 0

\* the buffer as advance leaves it in a frame that applies a snapshot
AdvancedStates ==
    Advance(game_states, packet_smoothing, NewGameState(TakenOff).val, calc_ball_rot)

\* the step took a State event off the inbound channel and advanced on it
TookState == NewGameState(TakenOff).type = "State" /\ exit_requested' = exit_requested

\* the step is an unpaused frame that did not panic, or changes nothing
UnpausedFrame ==
    /\ load_state = "None"
    /\ load_state' = "None"
    /\ ~game_speed.paused
    /\ recv_count' = recv_count
    /\ packet_smoothing' = packet_smoothing

\* a frame time of one time unit at the playback speed
UnitFrameTime == Ratio(game_speed.speed, 1)

\* C21: in update_ball_rotation, extrapolate_packet and
\* interpolate_calc_next_ball_rot a rotation whose angle ang_vel * dt does not
\* exceed the epsilon is not applied: the rotation matrix it would have turned
\* is left as it was (and does not become NaN).  Under Extrapolate the angle
\* is at the epsilon when the angular velocity is zero, whatever the frame
\* time, and for every angular velocity when the frame time is zero.
C21_AngularVelocityGuard ==
    [][UnpausedFrame
         => LET cur == game_states.current
                new == game_states'.current
            IN  /\ (packet_smoothing = "Extrapolate" /\ ~packet_updated')
                     => /\ AtOrBelowEpsilon(cur.ball_ang_vel, UnitFrameTime)
                             => new.ball_rot = cur.ball_rot
                        /\ Len(new.cars) = Len(cur.cars)
                        /\ \A i \in 1..Len(cur.cars) :
                               AtOrBelowEpsilon(cur.cars[i].ang_vel, UnitFrameTime)
                                 => new.cars[i].rot = cur.cars[i].rot
                        /\ \A checks \in BOOLEAN :
                               SmoothFrame(FALSE, 0, TRUE, checks)
                                 => /\ new.ball_rot = cur.ball_rot
                                    /\ \A i \in 1..Len(cur.cars) :
                                           new.cars[i].rot = cur.cars[i].rot
                /\ (TookState /\ packet_updated' /\ calc_ball_rot)
                     => LET adv == AdvancedStates
                        IN  /\ packet_smoothing = "Extrapolate"
                                 => /\ AtOrBelowEpsilon(adv.current.ball_ang_vel, UnitFrameTime)
                                         => new.ball_rot = adv.current.ball_rot
                                    /\ \A checks \in BOOLEAN :
                                           SmoothFrame(FALSE, 0, TRUE, checks)
                                             => new.ball_rot = adv.current.ball_rot
                            /\ packet_smoothing = "None"
                                 => (AtOrBelowEpsilon(adv.current.ball_ang_vel,
                                         TicksToTime(WrappingSub(adv.current.tick_count,
                                                                 last_game_tick),
                                                     adv.current.tick_rate))
                                       => new.ball_rot = adv.current.ball_rot)
                            /\ packet_smoothing = "Interpolate"
                                 => (AtOrBelowEpsilon(adv.last.ball_ang_vel,
                                         TicksToTime(WrappingSub(adv.next.tick_count,
                                                                 adv.last.tick_count),
                                                     adv.next.tick_rate))
                                       => game_states'.next.ball_rot = adv.next.ball_rot)]_vars

\* an extrapolated frame has turned the spinning car and left the other alone
C21_Witness ==
    /\ packet_smoothing = "Extrapolate"
    /\ ~packet_updated
    /\ ~game_speed.paused
    /\ Len(game_states.current.cars) = 2
    /\ \E i, j \in 1..2 :
           /\ game_states.current.cars[i].ang_vel = 0
           /\ game_states.current.cars[i].rot = game_states.next.cars[i].rot
           /\ game_states.current.cars[j].ang_vel # 0
           /\ game_states.current.cars[j].rot # game_states.next.cars[j].rot
           /\ game_states.current.cars[j].rot # NaN

\* the GameState values the client holds, receives or has pushed
KnownGameStates ==
    {game_states.last, game_states.current, game_states.next}
        \cup Snapshots
        \cup {enq_log[i].val : i \in {j \in 1..Len(enq_log) : enq_log[j].type = "State"}}

FrameDue == load_state = "None" /\ ~exit_requested

\* C29: apply_udp_updates never waits for the network: a frame can always be
\* taken with what is queued, it takes off only events that were queued, and
\* with an empty inbound queue it clears packet_updated and leaves GameStates,
\* RenderGroups and the outbound queue as they were.
C29_NeverWaits ==
    /\ [](FrameDue /\ inbound = <<>> => ENABLED Frame(FALSE))
    /\ [][Frame(FALSE)
            => /\ \E n \in 0..Len(inbound) : inbound' = SubSeq(inbound, n + 1, Len(inbound))
               /\ inbound = <<>>
                    => /\ ~packet_updated'
                       /\ game_states' = game_states
                       /\ render_groups' = render_groups
                       /\ outgoing' = outgoing
                       /\ inbound' = <<>>]_vars

\* a frame has found the queue empty after a frame that applied a snapshot and
\* one that changed the render groups
C29_Witness ==
    /\ load_state = "None"
    /\ inbound = <<>>
    /\ drain_count >= 2
    /\ ~packet_updated
    /\ game_states.next # DefaultGameState
    /\ \E g \in GroupIds : render_groups[g] # 0

\* the place in the batch of the last render message about group g, 0 if none
LastRender(batch, g) ==
    LET about == {i \in 1..Len(batch) : batch[i].type = "Render" /\ batch[i].val.group = g}
    IN  IF about = {} THEN 0 ELSE CHOOSE i \in about : \A j \in about : j <= i

\* C30: after every step each group holds what the last render message about
\* it among the events the step took off says, the list of an AddRender or
\* nothing after a RemoveRender, and what it held before when no render
\* message about it was taken off: no other event and no other step changes
\* the mapping.
C30_RenderFold ==
    [][\A g \in RenderKeys :
           LET i == LastRender(TakenOff, g)
           IN  render_groups'[g] =
                   IF i = 0 THEN render_groups[g]
                   ELSE IF TakenOff[i].val.kind = "AddRender"
                          THEN TakenOff[i].val.renders
                          ELSE 0]_vars

\* a frame has given group 1 its first list, group 2 is absent, and an
\* AddRender with another list for group 1 is queued for the next frame
C30_Witness ==
    /\ render_groups = [g \in RenderKeys |-> IF g = 1 THEN 1 ELSE 0]
    /\ drain_count = 1
    /\ inbound = <<Event("Render", [kind |-> "AddRender", group |-> 1, renders |-> 2])>>

\* the positions and velocities of a game state
Kinematics(s) ==
    [ball_pos |-> s.ball_pos, ball_vel |-> s.ball_vel,
     cars |-> [i \in 1..Len(s.cars) |->
                   [id |-> s.cars[i].id, pos |-> s.cars[i].pos, vel |-> s.cars[i].vel]]]

\* C28: under None, a step that takes a State event off the inbound channel
\* leaves in current the positions and velocities of the last State event it
\* took, and no other step changes the positions or velocities in current,
\* whatever the frame time and the playback speed.
C28_NonePinsCurrent ==
    [][packet_smoothing = "None"
         => IF NewGameState(TakenOff).type = "State" /\ exit_requested' = exit_requested
              THEN Kinematics(game_states'.current) = Kinematics(NewGameState(TakenOff).val)
              ELSE Kinematics(game_states'.current) = Kinematics(game_states.current)]_vars

\* under None, a snapshot with moving cars is in current, unmoved, after a
\* later frame that drained no State event
C28_Witness ==
    /\ packet_smoothing = "None"
    /\ load_state = "None"
    /\ ~game_speed.paused
    /\ drain_count >= 1
    /\ ~packet_updated
    /\ inbound = <<>>
    /\ game_states.current.cars # <<>>
    /\ Kinematics(game_states.current) = Kinematics(Snapshot(1))

\* the step enqueued a State command: listen saw the R key
ResetSent ==
    Len(SelectSeq(enq_log', IsStateCmd)) > Len(SelectSeq(enq_log, IsStateCmd))

\* a game state without the three ball fields that systems other than advance
\* write in next
BesidesBall(s) == [s EXCEPT !.ball_pos = 0, !.ball_vel = 0, !.ball_rot = 0]

\* C27 as stated: last and next change only in a step that advances, and then
\* to what advance assigns.
C27_OnlyAdvanceWrites ==
    [][(game_states'.last # game_states.last \/ game_states'.next # game_states.next)
         => /\ TookState
            /\ game_states'.last = game_states.next
            /\ game_states'.next =
                   Advance(game_states, packet_smoothing, NewGameState(TakenOff).val,
                           calc_ball_rot).next]_vars

\* C27: last changes only in a step that advances, to what next was.  next
\* changes only in a step that advances or resets the ball: after an advance
\* it is the accepted snapshot in every field but the ball's position,
\* velocity and orientation; its ball position and velocity differ from the
\* snapshot's only when listen has reset them (and are then the reset values),
\* its ball orientation only under CalcBallRot; without an advance nothing but
\* the reset of ball position and velocity changes next.
C27_NextWrites ==
    [][/\ game_states'.last # game_states.last
           => TookState /\ game_states'.last = game_states.next
       /\ TookState
           => LET new == NewGameState(TakenOff).val
                  next == game_states'.next
              IN  /\ BesidesBall(next) = BesidesBall(new)
                  /\ IF ResetSent
                       THEN next.ball_pos = ResetPos /\ next.ball_vel = ResetVel
                       ELSE next.ball_pos = new.ball_pos /\ next.ball_vel = new.ball_vel
                  /\ ~calc_ball_rot => next.ball_rot = new.ball_rot
       /\ ~TookState
           => game_states'.next =
                  IF ResetSent
                    THEN [game_states.next EXCEPT !.ball_pos = ResetPos, !.ball_vel = ResetVel]
                    ELSE game_states.next]_vars

\* next holds a snapshot with the ball reset and an orientation that is not
\* the snapshot's, and last holds the snapshot before it
C27_Witness ==
    /\ game_states.next.tick_count = 2
    /\ game_states.last = Snapshot(1)
    /\ game_states.next.ball_pos = ResetPos
    /\ game_states.next.ball_rot # Snapshot(2).ball_rot
    /\ BesidesBall(game_states.next) = BesidesBall(Snapshot(2))

\* C25 as stated: the primary port is read from the first positional
\* argument and the secondary port from the second, each with its own default.
C25_PortsIndependent ==
    server_port # NoServerPort
      => /\ server_port.primary_port = PortOr(ArgsNth(args, 1), DefaultPrimaryPort)
         /\ server_port.secondary_port = PortOr(ArgsNth(args, 2), DefaultSecondaryPort)

\* a frame of CameraSpec
CameraFrame(camera_key, timer_finished, copy_first) ==
    WholeFrame(FALSE, 1, TRUE, FALSE, camera_key, timer_finished, copy_first)

\* update_camera runs in the frame the step takes
CameraRuns == packet_updated' \/ packet_smoothing \in {"Extrapolate", "Interpolate"}

\* the PrimaryCamera component update_camera finds in the frame the step takes
CameraFound(copy_first) == IF copy_first THEN options_camera_state' ELSE primary_camera

\* car i of cars is the one the Director picks: no car is nearer to the ball,
\* and no car before it in the list is as near
IsNearest(cars, ball_pos, i) ==
    /\ \A j \in 1..Len(cars) :
           DistanceSquared(cars[i].pos, ball_pos) <= DistanceSquared(cars[j].pos, ball_pos)
    /\ \A j \in 1..(i - 1) :
           DistanceSquared(cars[i].pos, ball_pos) < DistanceSquared(cars[j].pos, ball_pos)

\* C22: in a frame in which update_camera finds Director(id) with id = 0 or
\* the director timer finished, the id it leaves in the component, and the car
\* the camera is placed behind, is that of the car of current.cars nearest to
\* the ball, the first in list order among equally near ones; with no cars in
\* current the id is left as it was.
C22_DirectorElection ==
    [][\A camera_key \in CameraKeys, timer_finished \in BOOLEAN, copy_first \in BOOLEAN :
           (/\ load_state = "None"
            /\ CameraFound(copy_first).mode = "Director"
            /\ CameraFound(copy_first).id = 0 \/ timer_finished
            /\ CameraRuns
            /\ CameraFrame(camera_key, timer_finished, copy_first))
             => LET cars == game_states'.current.cars
                    ball_pos == game_states'.current.ball_pos
                IN  /\ cars = <<>> /\ copy_first
                         => primary_camera' = CameraFound(copy_first)
                    /\ cars # <<>>
                         => \E i \in 1..Len(cars) :
                                /\ IsNearest(cars, ball_pos, i)
                                /\ copy_first => primary_camera' = Director(cars[i].id)
                                /\ load_state' = "None"
                                /\ camera_transform' = [car |-> cars[i].id, pos |-> cars[i].pos]]_vars

\* the Director has picked the second car of the list, the nearer one
C22_Witness ==
    /\ load_state = "None"
    /\ primary_camera.mode = "Director"
    /\ Len(game_states.current.cars) = 2
    /\ primary_camera.id = game_states.current.cars[2].id
    /\ camera_transform.car = primary_camera.id
    /\ DistanceSquared(game_states.current.cars[2].pos, game_states.current.ball_pos)
           < DistanceSquared(game_states.current.cars[1].pos, game_states.current.ball_pos)

\* C23 as stated: a Director that holds an elected id keeps the camera on that
\* car in a frame in which the timer does not finish and no camera key is
\* pressed.
C23_DirectorKeepsTarget ==
    [][\A copy_first \in BOOLEAN :
           (/\ load_state = "None"
            /\ primary_camera.mode = "Director"
            /\ primary_camera.id # 0
            /\ options_camera_state.mode = "Director"
            /\ CameraRuns
            /\ CameraFrame("none", FALSE, copy_first)
            /\ load_state' = "None")
             => camera_transform'.car = primary_camera.id]_vars

\* C24 as stated: a frame in which the camera tracks a car or directs never
\* aborts, and leaves the camera where it was when the car is missing.
C24_MissingTargetSkipped ==
    [][\A camera_key \in CameraKeys, timer_finished \in BOOLEAN, copy_first \in BOOLEAN :
           (/\ load_state = "None"
            /\ CameraFound(copy_first).mode # "Spectator"
            /\ CameraRuns
            /\ CameraFrame(camera_key, timer_finished, copy_first))
             => /\ load_state' = "None"
                /\ camera_transform'.car \notin CarIds(game_states'.current.cars)
                     => camera_transform' = camera_transform]_vars

\* the State commands the step put on the outbound channel
StatesEnqueued ==
    SelectSeq(SubSeq(enq_log', Len(enq_log) + 1, Len(enq_log')), IsStateCmd)

\* the step is a frame of the main loop, or changes nothing
FrameStep == load_state = "None" /\ recv_count' = recv_count

\* a game state with the ball at the reset position and velocity
BallReset(s) == [s EXCEPT !.ball_pos = ResetPos, !.ball_vel = ResetVel]

\* C31: with R pressed, listen sets the ball position and velocity of current
\* and of next to the reset values and nothing else, leaves last as it is, and
\* enqueues one State command that carries next as it has just written it;
\* without R it changes nothing and enqueues nothing.  In a frame the command
\* is the only State command enqueued and the last command of the frame, next
\* keeps the reset ball to the end of the frame (a later system of the frame
\* writes only its orientation), and last is what advance left.
C31_ManualReset ==
    /\ [](LET g == ListenStates(game_states, TRUE)
          IN  /\ g.current = BallReset(game_states.current)
              /\ g.next = BallReset(game_states.next)
              /\ g.last = game_states.last
              /\ ListenCommands(g, TRUE) = <<Event("State", g.next)>>
              /\ ListenStates(game_states, FALSE) = game_states
              /\ ListenCommands(game_states, FALSE) = <<>>)
    /\ [][FrameStep
            => LET sent == StatesEnqueued
               IN  /\ Len(sent) <= 1
                   /\ sent # <<>>
                        => /\ enq_log'[Len(enq_log')] = sent[1]
                           /\ [sent[1].val EXCEPT !.ball_rot = 0]
                                  = [BallReset(game_states'.next) EXCEPT !.ball_rot = 0]
                           /\ game_states'.next = BallReset(game_states'.next)
                           /\ game_states'.last =
                                  IF TookState THEN game_states.next ELSE game_states.last
                           /\ SmoothFrame(TRUE, 1, FALSE, TRUE)
                                => /\ sent[1].val = game_states'.next
                                   /\ game_states'.current = BallReset(game_states'.current)
                   /\ (sent = <<>> /\ ~TookState /\ packet_smoothing = "None")
                        => game_states' = game_states]_vars

\* R was pressed between two snapshots under Interpolate: the command carries
\* next with the reset ball and its cars, current is not next, and last is the
\* snapshot before
C31_Witness ==
    /\ packet_smoothing = "Interpolate"
    /\ Len(enq_log) >= 1
    /\ enq_log[Len(enq_log)].type = "State"
    /\ enq_log[Len(enq_log)].val = game_states.next
    /\ game_states.next = BallReset(Snapshot(2))
    /\ game_states.last = Snapshot(1)
    /\ game_states.current # game_states.next

\* no State event is waiting on the inbound channel
NoStateQueued == \A i \in 1..Len(inbound) : inbound[i].type # "State"

\* C32: whatever the smoothing policy of each call, a step that advances
\* leaves in next the tick of the snapshot it applied and in last the tick
\* next had, and no other step changes either tick; both are 0 at the start.
\* So once every accepted snapshot has been applied, next holds the tick of
\* the snapshot the receiver accepted last.
C32_TicksFollowAdvance ==
    /\ [](NoStateQueued => game_states.next.tick_count = last_game_state)
    /\ [](drain_count = 0
            => game_states.next.tick_count = 0 /\ game_states.last.tick_count = 0)
    /\ [][IF TookState
            THEN /\ game_states'.next.tick_count = NewGameState(TakenOff).val.tick_count
                 /\ game_states'.last.tick_count = game_states.next.tick_count
            ELSE /\ game_states'.next.tick_count = game_states.next.tick_count
                 /\ game_states'.last.tick_count = game_states.last.tick_count]_vars

\* two snapshots have been applied, the first under None or Extrapolate (its
\* tick is the one update_ball_rotation remembers), the second under
\* Interpolate (current is the first)
C32_Witness ==
    /\ packet_smoothing = "Interpolate"
    /\ last_game_tick = 1
    /\ game_states.last.tick_count = 1
    /\ game_states.current.tick_count = 1
    /\ game_states.next.tick_count = 3

\* the step is a frame whose batch ends with an Exit event
ExitDrained ==
    /\ load_state = "None"
    /\ \E i \in 1..Len(TakenOff) : TakenOff[i].type = "Exit"

\* C33: in a frame whose batch contains Exit, apply_udp_updates sends AppExit
\* and hands on GameStates, packet_updated and the stopwatch as the frame
\* before left them, a State event drained ahead of the Exit notwithstanding:
\* packet_updated is unchanged, and the states and the stopwatch at the end of
\* the frame are what the smoothing systems that packet_updated selects make
\* of the old values (nothing when none of them runs or playback is paused).
C33_ExitDropsState ==
    [][ExitDrained
         => /\ exit_requested'
            /\ packet_updated' = packet_updated
            /\ \E dt \in FrameTimes, checks \in BOOLEAN :
                   LET w == SmoothingSystems(World(game_states, last_game_tick,
                                                   packet_time_elapsed),
                                             packet_updated, packet_smoothing,
                                             calc_ball_rot, game_speed, dt, checks)
                   IN  /\ game_states' = w.states
                       /\ packet_time_elapsed' = w.elapsed
            /\ (~packet_updated /\ (packet_smoothing = "None" \/ game_speed.paused))
                 => /\ game_states' = game_states
                    /\ packet_time_elapsed' = packet_time_elapsed]_vars

\* a frame has drained a snapshot and the Exit behind it: the receiver had
\* accepted the snapshot, and the buffer is as it was constructed
C33_Witness ==
    /\ exit_requested
    /\ drain_count = 2
    /\ last_game_state = 1
    /\ ~packet_updated
    /\ game_states.next = DefaultGameState

\* C34: while playback is paused, extrapolate_packet, interpolate_packets and
\* update_ball_rotation change nothing: not last, current or next, not the
\* stopwatch, not the tick update_ball_rotation remembers.  So a paused frame
\* that applies no snapshot leaves the buffer and the stopwatch as they were,
\* and one that applies a snapshot under None or Extrapolate leaves the
\* buffer as advance made it.
C34_PausedFreezes ==
    /\ [](game_speed.paused
            => LET w == World(game_states, last_game_tick, packet_time_elapsed)
               IN  \A dt \in FrameTimes, checks \in BOOLEAN :
                       /\ ExtrapolatePacket(w, game_speed, dt) = w
                       /\ InterpolatePackets(w, game_speed, dt, checks) = w
                       /\ \A ps \in {"None", "Extrapolate", "Interpolate"} :
                              UpdateBallRotation(w, ps, game_speed, dt, checks) = w)
    /\ [][(FrameStep /\ game_speed.paused)
            => IF TookState
                 THEN packet_smoothing # "Interpolate"
                        => /\ game_states' = AdvancedStates
                           /\ last_game_tick' = last_game_tick
                 ELSE /\ game_states' = game_states
                      /\ packet_time_elapsed' = packet_time_elapsed
                      /\ last_game_tick' = last_game_tick]_vars

\* paused under Interpolate, a frame has applied a snapshot and a later one
\* none: current is where the advance put it and the stopwatch has not moved
C34_Witness ==
    /\ game_speed.paused
    /\ packet_smoothing = "Interpolate"
    /\ load_state = "None"
    /\ ~packet_updated
    /\ inbound = <<>>
    /\ game_states.next = Snapshot(1)
    /\ game_states.current = DefaultGameState
    /\ packet_time_elapsed = 0

\* C35: a frame that advances runs neither extrapolate_packet nor
\* interpolate_packets (current keeps the positions and velocities advance
\* gave it) and leaves the stopwatch at zero; the stopwatch changes otherwise
\* only in an unpaused Interpolate frame that applied no snapshot, by the
\* frame time, and the lerp of that frame uses the stopwatch so ticked: the
\* time of the interpolating frames since the last advance.
C35_SnapshotOrSmoothing ==
    [][(FrameStep /\ packet_smoothing' = packet_smoothing)
         => IF TookState
              THEN /\ packet_time_elapsed' = 0
                   /\ packet_updated'
                   /\ Kinematics(game_states'.current) = Kinematics(AdvancedStates.current)
              ELSE /\ packet_time_elapsed' # packet_time_elapsed
                        => /\ packet_smoothing = "Interpolate"
                           /\ ~game_speed.paused
                           /\ ~packet_updated'
                           /\ \E dt \in FrameTimes :
                                  packet_time_elapsed' = packet_time_elapsed + dt
                   /\ (packet_smoothing = "Interpolate" /\ ~game_speed.paused
                         /\ load_state' = "None")
                        => game_states'.current.ball_pos =
                               Lerp(game_states.last.ball_pos, game_states.next.ball_pos,
                                    LerpAmount(game_states, game_speed,
                                               packet_time_elapsed'))]_vars

\* under Interpolate the stopwatch was reset by the advance to the second
\* snapshot and an interpolating frame has ticked it since: current is the
\* lerp at that time, between last and next
C35_Witness ==
    /\ packet_smoothing = "Interpolate"
    /\ ~game_speed.paused
    /\ ~packet_updated
    /\ packet_time_elapsed = 1
    /\ game_states.last = Snapshot(1)
    /\ game_states.next.tick_count = 3
    /\ game_states.current.ball_pos # game_states.last.ball_pos
    /\ game_states.current.ball_pos # game_states.next.ball_pos
    /\ IsFinite(game_states.current.ball_pos)

\* the step is a frame in which update_ball_rotation evaluates the tick
\* difference: it advances under None with CalcBallRot on, unpaused
EvaluatesTickDifference ==
    /\ FrameStep
    /\ TookState
    /\ packet_smoothing = "None"
    /\ calc_ball_rot
    /\ ~game_speed.paused

\* C36 as stated: whenever update_ball_rotation evaluates current.tick_count -
\* last_game_tick under None, current.tick_count is at least the tick it
\* remembered at its previous evaluation, and the frame does not panic on the
\* subtraction.
C36_NoTickUnderflow ==
    [][EvaluatesTickDifference
         => /\ ~SubOverflows(AdvancedStates.current.tick_count, last_game_tick)
            /\ load_state' # "Panicked"]_vars

IsConnection(ev) == ev.type = "Connection"
IsReply(cmd) == ~IsStateCmd(cmd)

\* the commands other than State the step put on the outbound channel
RepliesEnqueued ==
    SelectSeq(SubSeq(enq_log', Len(enq_log) + 1, Len(enq_log')), IsReply)

\* the handshake reply at the playback settings of the moment
HandshakeReply == <<Event("Paused", game_speed.paused), Event("Speed", game_speed.speed)>>

\* C37: a frame enqueues, for each Connection event it takes off the inbound
\* channel, Paused(game_speed.paused) and then Speed(game_speed.speed), and no
\* other command but the State of an R press; the replies leave GameStates
\* alone (a frame that applies no snapshot and sees no R press leaves it as
\* it was) and the playback settings too.
C37_HandshakeReply ==
    /\ [](/\ ConnectionReplies(<<Event("Connection", 0), Event("State", DefaultGameState),
                                 Event("Connection", 0)>>, game_speed)
                 = HandshakeReply \o HandshakeReply
          /\ ConnectionReplies(<<Event("State", DefaultGameState)>>, game_speed) = <<>>)
    /\ [][FrameStep
            => LET n == Len(SelectSeq(TakenOff, IsConnection))
                   r == RepliesEnqueued
               IN  /\ Len(r) = 2 * n
                   /\ \A k \in 1..n : <<r[2 * k - 1], r[2 * k]>> = HandshakeReply
                   /\ game_speed' = game_speed
                   /\ (NewGameState(TakenOff).type # "State" /\ StatesEnqueued = <<>>)
                        => game_states' = game_states]_vars

\* a Connection event was answered in a frame behind the one that applied a
\* snapshot: the two replies are queued in order and the buffer holds the snapshot
C37_Witness ==
    /\ enq_log = <<Event("Paused", game_speed.paused), Event("Speed", game_speed.speed)>>
    /\ game_speed.paused
    /\ ~packet_updated
    /\ drain_count = 2
    /\ game_states.next.tick_count > 0

\* how many datagrams the handled commands have left on the socket
RECURSIVE DatagramsOf(_)
DatagramsOf(log) ==
    IF log = <<>> THEN 0
    ELSE (IF Head(log).disc THEN 1 ELSE 0) + (IF Head(log).payload THEN 1 ELSE 0)
             + DatagramsOf(Tail(log))

\* C38: a payload is written only for the command whose discriminant is the
\* datagram written last, by the write just before; every write of the sender
\* adds one datagram, the discriminant or the payload of the command in
\* hand; a failed discriminant write adds nothing and drops the command, so
\* that no payload of it is ever written.
C38_PayloadFollowsDiscriminant ==
    /\ [](\A i \in 1..Len(send_log) : send_log[i].payload => send_log[i].disc)
    /\ [](wire # <<>>
            => Len(wire) = 1 + DatagramsOf(send_log) + (IF send_pc = "payload" THEN 1 ELSE 0))
    /\ [](send_pc = "payload" => wire[Len(wire)] = <<CmdDiscriminant(send_cmd)>>)
    /\ [][(wire' # wire /\ wire # <<>>)
            => \/ /\ send_pc = "disc"
                  /\ wire' = Append(wire, <<CmdDiscriminant(send_cmd)>>)
                  /\ send_pc' = "payload"
                  /\ send_cmd' = send_cmd
               \/ /\ send_pc = "payload"
                  /\ wire[Len(wire)] = <<CmdDiscriminant(send_cmd)>>
                  /\ wire' = Append(wire, CmdPayload(send_cmd))]_vars
    /\ [][SenderWriteDisc(FALSE)
            => /\ wire' = wire
               /\ send_pc' = "recv"
               /\ send_cmd' = NoCmd
               /\ send_log'[Len(send_log')] = [cmd |-> send_cmd, disc |-> FALSE,
                                               payload |-> FALSE]]_vars

\* the discriminant write of one command failed and the command behind it
\* was written in full: the socket holds the announcement and two datagrams
C38_Witness ==
    /\ Len(send_log) = 2
    /\ ~send_log[1].disc
    /\ send_log[2].disc /\ send_log[2].payload
    /\ Len(wire) = 3
    /\ send_pc = "recv"

\* C39 as stated: a frame that ran pre_update_car (a frame with packet_updated
\* set) ends with a Car entity for each car of current and for no other id.
C39_EntitiesMatchCars ==
    [][(FrameStep /\ packet_updated')
         => car_entities' = CarIds(game_states'.current.cars)]_vars


====
